---- MODULE Spec2Model ----
(***************************************************************************)
(* A model of the googleapis-module dynamic client core:                   *)
(*   - pkg/discovery: the catalog cache (getDiscoveryList) and the spec    *)
(*     cache (GetAPI), called by concurrent goroutines, with ClearCache;   *)
(*   - components/dynamic-client/schema.go: the schema converter.          *)
(***************************************************************************)
EXTENDS Integers, Sequences, FiniteSets, TLC

(***************************************************************************)
(* Part I.  pkg/discovery/discovery.go                                     *)
(*                                                                         *)
(* A critical section that only reads or writes the guarded fields is one  *)
(* atomic step.  getDiscoveryList holds discoveryListMu for writing across *)
(* the whole network fetch, so that lock's write holder is state.          *)
(***************************************************************************)

\* The goroutines that call the discovery client concurrently.
Procs == {"g1", "g2"}

\* The clock runs from 0 to MaxTime; one unit is half an hour.
MaxTime == 2

\* cacheTTL: 1 * time.Hour, in clock units.
cacheTTL == 2

\* The service ids callers ask GetAPI for.
ServiceIDs == {"sheets:v4", "sheets:v3"}

\* The directory documents the catalog endpoint may serve (Discovery.Items).
\* title is the rank of the title string in ascending string order.
Catalogs ==
  << << [id |-> "sheets:v4", title |-> 3, preferred |-> TRUE],
        [id |-> "drive:v3",  title |-> 1, preferred |-> TRUE],
        [id |-> "sheets:v3", title |-> 2, preferred |-> FALSE] >>,
     << [id |-> "sheets:v4", title |-> 3, preferred |-> TRUE],
        [id |-> "drive:v3",  title |-> 1, preferred |-> TRUE] >> >>

\* A cached directory is an index into Catalogs; 0 is the nil pointer.
CatalogRefs == 1..Len(Catalogs)

\* The revisions of a service's specification document the server may serve.
\* A cached specification is its revision; 0 is "no entry".
Revisions == {1, 2}

\* The ways a fetch fails: httpClient.Do error, status != 200, decode error.
FetchErrors == {"transport", "status", "decode"}

VARIABLES
  now,                     \* time.Now()
  discoveryListCache,      \* Client.discoveryListCache (0 = nil)
  discoveryListCacheTime,  \* Client.discoveryListCacheTime
  dlWriter,                \* the goroutine holding discoveryListMu for writing
  apiCache,                \* Client.apiCache: service id -> revision (0 = absent)
  pc, op, arg,             \* per goroutine: position, operation, serviceID
  api,                     \* per goroutine: GetAPI's local api (fetched document)
  dlRes,                   \* per goroutine: what getDiscoveryList returned
  result,                  \* per goroutine: what the operation returned
  net,                     \* history: network calls the current call issued
  everOk,                  \* history: per id, a GetAPI succeeded since the last clear
  afterOk,                 \* history: the call began with everOk[serviceID], and
                           \*   ClearCache has not emptied apiCache during it
  catFresh,                \* history: the catalog cache was valid when GetAPI hit
  okStores,                \* history: times of the catalog refreshes since the last clear
  beforeClear              \* history: which documents were fetched before the latest
                           \*   ClearCache emptied apiCache: doc, the one a goroutine
                           \*   holds to store; entry, the one in apiCache

cacheVars == << now, discoveryListCache, discoveryListCacheTime, dlWriter, apiCache,
                pc, op, arg, api, dlRes, result, net, everOk, afterOk,
                catFresh, okStores, beforeClear >>

\* The state of a SchemaConverter and of its caller (Part II).
VARIABLES
  scSchemas,           \* c.api.Schemas of the SchemaConverter
  scMethod,            \* the method the schemas are built for
  visited,             \* c.visited
  requestSchema,       \* the latest result of BuildRequestSchema
  responseSchema,      \* the latest result of BuildResponseSchema
  prevRequestSchema,   \* history: the result of the invocation before
  prevResponseSchema,  \* history: the result of the invocation before
  pass,                \* history: the latest conversion pass
  lastOp               \* history: the latest operation

schemaVars ==
  << scSchemas, scMethod, visited, requestSchema, responseSchema,
     prevRequestSchema, prevResponseSchema, pass, lastOp >>

\* The fields of the dynamic client Component (Part III); its discoveryClient
\* is the client of Part I, its requestSchema and responseSchema are above.
VARIABLES
  settings,            \* c.settings: service, method, enableErrorPort
  servicesAvailable,   \* c.servicesAvailable
  servicesLabels,      \* c.servicesLabels
  methodsAvailable,    \* c.methodsAvailable
  methodsLabels,       \* c.methodsLabels
  currentMethod,       \* c.currentMethod, by its full name ("" = nil)
  exec,                \* history: the handleRequest call on record
  emitted,             \* the messages that call gave to the handler
  returned,            \* what the latest Handle call returned
  event,               \* history: the handleSettings call on record
  ports                \* what the latest Ports call returned

clientVars ==
  << settings, servicesAvailable, servicesLabels, methodsAvailable, methodsLabels,
     currentMethod, exec, emitted, returned, event, ports >>

\* The directory and the document the listing functions are applied to, and
\* what the latest of them returned.
VARIABLES
  dirItems,            \* Discovery.Items of the directory
  dirDoc,              \* the API document, by service id and revision
  listing              \* the function applied and the slice it returned

dirVars == << dirItems, dirDoc, listing >>

\* The fixed-operation components firestore_delete_doc and firestore_get_docs.
VARIABLES
  opSettings,          \* per component: g.settings.EnableErrorPort
  opCall               \* history: the latest Handle call on a request port

opVars == << opSettings, opCall >>

\* The firestore_listen_collection component and the goroutines calling it.
VARIABLES
  lsSettings,          \* g.settings: enableErrorPort, enableStopPort
  startSettings,       \* g.startSettings, by its Context
  cancelFunc,          \* g.cancelFunc: the goroutine whose listenCancel it is
  runLock,             \* g.runLock: the goroutine holding it
  lpc,                 \* per goroutine: where its Handle call stands
  lmsg,                \* per goroutine: the port and message of its call
  cancelled,           \* per goroutine: its listenCtx was cancelled
  lreturned,           \* per goroutine: what its start call is about to return
  lresult,             \* history: the latest return of a Handle call
  lemitted             \* history: the latest message given to the handler

listenVars ==
  << lsSettings, startSettings, cancelFunc, runLock, lpc, lmsg, cancelled,
     lreturned, lresult, lemitted >>

\* The dynamic client Component called from several goroutines at once.
VARIABLES
  settingsLock,        \* c.settingsLock: the goroutine holding it for writing
  hpc,                 \* per goroutine: where its Handle call stands
  hin,                 \* per goroutine: the Settings message of its handleSettings
  hold,                \* per goroutine: oldServiceValue of its handleSettings, or
                       \*   serviceID, methodName, enableErrorPort of its handleRequest
  completed,           \* history: the selection as the latest handleSettings left it
  calls                \* history: the number of calls made so far

concVars == << settingsLock, hpc, hin, hold, completed, calls >>

extraVars == << dirVars, opVars, listenVars, concVars >>

vars == << cacheVars, schemaVars, clientVars, extraVars >>

NoWriter == "none"

NoResult == [st |-> "none", val |-> 0, err |-> ""]
OkResult(v) == [st |-> "ok", val |-> v, err |-> ""]
ErrResult(e) == [st |-> "err", val |-> 0, err |-> e]

\* getDiscoveryList's (discovery, err); age is the snapshot's age when returned.
NoDL == [st |-> "none", cat |-> 0, age |-> 0]
OkDL(c, a) == [st |-> "ok", cat |-> c, age |-> a]
ErrDL == [st |-> "err", cat |-> 0, age |-> 0]

\* The ids of a directory document's items.
CatalogIDs(c) == { Catalogs[c][i].id : i \in 1..Len(Catalogs[c]) }

CacheValid ==
  discoveryListCache # 0 /\ now - discoveryListCacheTime < cacheTTL

InitCache ==
  /\ now = 0
  /\ discoveryListCache = 0
  /\ discoveryListCacheTime = 0
  /\ dlWriter = NoWriter
  /\ apiCache = [s \in ServiceIDs |-> 0]
  /\ pc = [p \in Procs |-> "idle"]
  /\ op = [p \in Procs |-> "none"]
  /\ arg = [p \in Procs |-> "sheets:v4"]
  /\ api = [p \in Procs |-> 0]
  /\ dlRes = [p \in Procs |-> NoDL]
  /\ result = [p \in Procs |-> NoResult]
  /\ net = [p \in Procs |-> {}]
  /\ everOk = [s \in ServiceIDs |-> FALSE]
  /\ afterOk = [p \in Procs |-> FALSE]
  /\ catFresh = [p \in Procs |-> FALSE]
  /\ okStores = << >>
  /\ beforeClear = [doc |-> [p \in Procs |-> FALSE],
                    entry |-> [s \in ServiceIDs |-> FALSE]]

\* Time passes.
Tick ==
  /\ now < MaxTime
  /\ now' = now + 1
  /\ UNCHANGED << discoveryListCache, discoveryListCacheTime, dlWriter, apiCache,
                  pc, op, arg, api, dlRes, result, net, everOk, okStores >>
  /\ UNCHANGED beforeClear
  /\ UNCHANGED << afterOk, catFresh >>
  /\ UNCHANGED << schemaVars, clientVars, extraVars >>

\* A goroutine enters an operation.
Begin(p, o, s, first) ==
  /\ pc[p] = "idle"
  /\ pc' = [pc EXCEPT ![p] = first]
  /\ op' = [op EXCEPT ![p] = o]
  /\ arg' = [arg EXCEPT ![p] = s]
  /\ dlRes' = [dlRes EXCEPT ![p] = NoDL]
  /\ result' = [result EXCEPT ![p] = NoResult]
  /\ net' = [net EXCEPT ![p] = {}]
  /\ afterOk' = [afterOk EXCEPT ![p] = (o = "GetAPI" /\ everOk[s])]
  /\ catFresh' = [catFresh EXCEPT ![p] = FALSE]
  /\ UNCHANGED beforeClear
  /\ UNCHANGED << now, discoveryListCache, discoveryListCacheTime, dlWriter, apiCache,
                  api, everOk, okStores >>
  /\ UNCHANGED << schemaVars, clientVars, extraVars >>

CallGetServices(p) == Begin(p, "GetServices", "sheets:v4", "dl_read")
CallGetAPI(p) == \E s \in ServiceIDs : Begin(p, "GetAPI", s, "api_read")
CallClearCache(p) == Begin(p, "ClearCache", "sheets:v4", "cc_clear1")

\* The operation of p returns r.
Return(p, r) ==
  /\ result' = [result EXCEPT ![p] = r]
  /\ pc' = [pc EXCEPT ![p] = "idle"]

\* What follows getDiscoveryList's return r in its caller, up to the caller's
\* next shared access: GetServices returns the list (or the error); GetAPI's
\* getDiscoveryURL looks the id up and GetAPI returns the error or calls fetchAPI.
AfterDiscoveryListNoLookup(p, r, e) ==
  IF r.st = "err"
    THEN /\ Return(p, ErrResult(e))
         /\ dlRes' = [dlRes EXCEPT ![p] = r]
         /\ net' = net
    ELSE IF op[p] = "GetServices"
      THEN /\ Return(p, OkResult(r.cat))
           /\ dlRes' = [dlRes EXCEPT ![p] = r]
           /\ net' = net
      ELSE /\ pc' = [pc EXCEPT ![p] = "api_resp"]
           /\ dlRes' = [dlRes EXCEPT ![p] = r]
           /\ net' = [net EXCEPT ![p] = @ \cup {"spec"}]
           /\ UNCHANGED result
AfterDiscoveryList(p, r, e) ==
  IF r.st = "err"
    THEN /\ Return(p, ErrResult(e))
         /\ dlRes' = [dlRes EXCEPT ![p] = r]
         /\ net' = net
    ELSE IF op[p] = "GetServices"
      THEN /\ Return(p, OkResult(r.cat))
           /\ dlRes' = [dlRes EXCEPT ![p] = r]
           /\ net' = net
      ELSE IF arg[p] \notin CatalogIDs(r.cat)
        THEN /\ Return(p, ErrResult("not found"))
             /\ dlRes' = [dlRes EXCEPT ![p] = r]
             /\ net' = net
        ELSE /\ pc' = [pc EXCEPT ![p] = "api_resp"]
             /\ dlRes' = [dlRes EXCEPT ![p] = r]
             /\ net' = [net EXCEPT ![p] = @ \cup {"spec"}]
             /\ UNCHANGED result

\* getDiscoveryList: RLock, the validity check, RUnlock.
DL_Read(p) ==
  /\ pc[p] = "dl_read"
  /\ dlWriter = NoWriter
  /\ IF CacheValid
       THEN AfterDiscoveryList(p, OkDL(discoveryListCache, now - discoveryListCacheTime), "")
       ELSE /\ pc' = [pc EXCEPT ![p] = "dl_wlock"]
            /\ UNCHANGED << dlRes, result, net >>
  /\ UNCHANGED << now, discoveryListCache, discoveryListCacheTime, dlWriter, apiCache,
                  op, arg, api, everOk, okStores >>
  /\ UNCHANGED beforeClear
  /\ UNCHANGED << afterOk, catFresh >>
  /\ UNCHANGED << schemaVars, clientVars, extraVars >>

\* getDiscoveryList: c.discoveryListMu.Lock()
DL_LockNotExclusive(p) ==
  /\ pc[p] = "dl_wlock"
  /\ dlWriter' = p
  /\ pc' = [pc EXCEPT ![p] = "dl_wcheck"]
  /\ UNCHANGED << now, discoveryListCache, discoveryListCacheTime, apiCache,
                  op, arg, api, dlRes, result, net, everOk, okStores >>
  /\ UNCHANGED beforeClear
  /\ UNCHANGED << afterOk, catFresh >>
  /\ UNCHANGED << schemaVars, clientVars, extraVars >>
DL_Lock(p) ==
  /\ pc[p] = "dl_wlock"
  /\ dlWriter = NoWriter
  /\ dlWriter' = p
  /\ pc' = [pc EXCEPT ![p] = "dl_wcheck"]
  /\ UNCHANGED << now, discoveryListCache, discoveryListCacheTime, apiCache,
                  op, arg, api, dlRes, result, net, everOk, okStores >>
  /\ UNCHANGED beforeClear
  /\ UNCHANGED << afterOk, catFresh >>
  /\ UNCHANGED << schemaVars, clientVars, extraVars >>

\* getDiscoveryList: the double check under the write lock. When the cache is
\* valid it is returned (and the deferred Unlock runs); when it is not, the
\* request is sent (httpClient.Do) with the lock held.
DL_WCheckNoDoubleCheck(p) ==
  /\ pc[p] = "dl_wcheck"
  /\ pc' = [pc EXCEPT ![p] = "dl_resp"]
  /\ net' = [net EXCEPT ![p] = @ \cup {"catalog"}]
  /\ UNCHANGED << dlWriter, dlRes, result >>
  /\ UNCHANGED << now, discoveryListCache, discoveryListCacheTime, apiCache,
                  op, arg, api, everOk, okStores >>
  /\ UNCHANGED beforeClear
  /\ UNCHANGED << afterOk, catFresh >>
  /\ UNCHANGED << schemaVars, clientVars, extraVars >>
DL_WCheck(p) ==
  /\ pc[p] = "dl_wcheck"
  /\ IF CacheValid
       THEN /\ AfterDiscoveryList(p, OkDL(discoveryListCache, now - discoveryListCacheTime), "")
            /\ dlWriter' = NoWriter
       ELSE /\ pc' = [pc EXCEPT ![p] = "dl_resp"]
            /\ net' = [net EXCEPT ![p] = @ \cup {"catalog"}]
            /\ UNCHANGED << dlWriter, dlRes, result >>
  /\ UNCHANGED << now, discoveryListCache, discoveryListCacheTime, apiCache,
                  op, arg, api, everOk, okStores >>
  /\ UNCHANGED beforeClear
  /\ UNCHANGED << afterOk, catFresh >>
  /\ UNCHANGED << schemaVars, clientVars, extraVars >>

\* getDiscoveryList: the request fails, the status is not 200 or the body does
\* not decode: the error is returned and the lock released.
DL_FetchFailServeStale(p) ==
  /\ pc[p] = "dl_resp"
  /\ \E e \in FetchErrors :
       AfterDiscoveryList(p, IF discoveryListCache # 0
                               THEN OkDL(discoveryListCache, now - discoveryListCacheTime)
                               ELSE ErrDL, e)
  /\ dlWriter' = NoWriter
  /\ UNCHANGED << now, discoveryListCache, discoveryListCacheTime, apiCache,
                  op, arg, api, everOk, okStores >>
  /\ UNCHANGED beforeClear
  /\ UNCHANGED << afterOk, catFresh >>
  /\ UNCHANGED << schemaVars, clientVars, extraVars >>
DL_FetchFail(p) ==
  /\ pc[p] = "dl_resp"
  /\ \E e \in FetchErrors : AfterDiscoveryList(p, ErrDL, e)
  /\ dlWriter' = NoWriter
  /\ UNCHANGED << now, discoveryListCache, discoveryListCacheTime, apiCache,
                  op, arg, api, everOk, okStores >>
  /\ UNCHANGED beforeClear
  /\ UNCHANGED << afterOk, catFresh >>
  /\ UNCHANGED << schemaVars, clientVars, extraVars >>

\* getDiscoveryList: the response decodes; it is cached with time.Now() and returned.
DL_FetchOk(p) ==
  /\ pc[p] = "dl_resp"
  /\ \E c \in CatalogRefs :
       /\ discoveryListCache' = c
       /\ AfterDiscoveryList(p, OkDL(c, 0), "")
  /\ discoveryListCacheTime' = now
  /\ okStores' = Append(okStores, now)
  /\ dlWriter' = NoWriter
  /\ UNCHANGED << now, apiCache, op, arg, api, everOk >>
  /\ UNCHANGED beforeClear
  /\ UNCHANGED << afterOk, catFresh >>
  /\ UNCHANGED << schemaVars, clientVars, extraVars >>

\* GetAPI: the lookup under apiCacheMu.RLock. A hit returns the entry; a miss
\* goes on to getDiscoveryURL, which calls getDiscoveryList.
API_ReadExpiring(p) ==
  /\ pc[p] = "api_read"
  /\ IF apiCache[arg[p]] # 0 /\ CacheValid
       THEN /\ Return(p, OkResult(apiCache[arg[p]]))
            /\ everOk' = [everOk EXCEPT ![arg[p]] = TRUE]
            /\ catFresh' = [catFresh EXCEPT ![p] = CacheValid]
       ELSE /\ pc' = [pc EXCEPT ![p] = "dl_read"]
            /\ UNCHANGED << result, everOk, catFresh >>
  /\ UNCHANGED << now, discoveryListCache, discoveryListCacheTime, dlWriter, apiCache,
                  op, arg, api, dlRes, net, okStores >>
  /\ UNCHANGED beforeClear
  /\ UNCHANGED afterOk
  /\ UNCHANGED << schemaVars, clientVars, extraVars >>
API_Read(p) ==
  /\ pc[p] = "api_read"
  /\ IF apiCache[arg[p]] # 0
       THEN /\ Return(p, OkResult(apiCache[arg[p]]))
            /\ everOk' = [everOk EXCEPT ![arg[p]] = TRUE]
            /\ catFresh' = [catFresh EXCEPT ![p] = CacheValid]
       ELSE /\ pc' = [pc EXCEPT ![p] = "dl_read"]
            /\ UNCHANGED << result, everOk, catFresh >>
  /\ UNCHANGED << now, discoveryListCache, discoveryListCacheTime, dlWriter, apiCache,
                  op, arg, api, dlRes, net, okStores >>
  /\ UNCHANGED beforeClear
  /\ UNCHANGED afterOk
  /\ UNCHANGED << schemaVars, clientVars, extraVars >>

\* fetchAPI fails (request error, status != 200, decode error): GetAPI returns
\* the error before it touches the cache.
API_FetchFail(p) ==
  /\ pc[p] = "api_resp"
  /\ \E e \in FetchErrors : Return(p, ErrResult(e))
  /\ dlRes' = [dlRes EXCEPT ![p] = NoDL]
  /\ UNCHANGED << now, discoveryListCache, discoveryListCacheTime, dlWriter, apiCache,
                  op, arg, api, net, everOk, okStores >>
  /\ UNCHANGED beforeClear
  /\ UNCHANGED << afterOk, catFresh >>
  /\ UNCHANGED << schemaVars, clientVars, extraVars >>

\* fetchAPI returns the decoded document.
API_FetchOk(p) ==
  /\ pc[p] = "api_resp"
  /\ \E r \in Revisions : api' = [api EXCEPT ![p] = r]
  /\ pc' = [pc EXCEPT ![p] = "api_store"]
  /\ UNCHANGED << now, discoveryListCache, discoveryListCacheTime, dlWriter, apiCache,
                  op, arg, dlRes, result, net, everOk, okStores >>
  /\ UNCHANGED beforeClear
  /\ UNCHANGED << afterOk, catFresh >>
  /\ UNCHANGED << schemaVars, clientVars, extraVars >>

\* GetAPI: Lock; c.apiCache[serviceID] = api; Unlock; return api.
API_StoreDropped(p) ==
  /\ pc[p] = "api_store"
  /\ Return(p, OkResult(api[p]))
  /\ api' = [api EXCEPT ![p] = 0]
  /\ dlRes' = [dlRes EXCEPT ![p] = NoDL]
  /\ everOk' = [everOk EXCEPT ![arg[p]] = TRUE]
  /\ UNCHANGED << now, discoveryListCache, discoveryListCacheTime, dlWriter, apiCache,
                  op, arg, net, okStores >>
  /\ UNCHANGED beforeClear
  /\ UNCHANGED << afterOk, catFresh >>
  /\ UNCHANGED << schemaVars, clientVars, extraVars >>
API_Store(p) ==
  /\ pc[p] = "api_store"
  /\ apiCache' = [apiCache EXCEPT ![arg[p]] = api[p]]
  /\ beforeClear' = [beforeClear EXCEPT !.entry[arg[p]] = beforeClear.doc[p],
                                        !.doc[p] = FALSE]
  /\ Return(p, OkResult(api[p]))
  /\ api' = [api EXCEPT ![p] = 0]
  /\ dlRes' = [dlRes EXCEPT ![p] = NoDL]
  /\ everOk' = [everOk EXCEPT ![arg[p]] = TRUE]
  /\ UNCHANGED << now, discoveryListCache, discoveryListCacheTime, dlWriter,
                  op, arg, net, okStores >>
  /\ UNCHANGED << afterOk, catFresh >>
  /\ UNCHANGED << schemaVars, clientVars, extraVars >>

\* ClearCache: discoveryListMu.Lock; c.discoveryListCache = nil; Unlock.
CC_Clear1(p) ==
  /\ pc[p] = "cc_clear1"
  /\ dlWriter = NoWriter
  /\ discoveryListCache' = 0
  /\ okStores' = << >>
  /\ pc' = [pc EXCEPT ![p] = "cc_clear2"]
  /\ UNCHANGED << now, discoveryListCacheTime, dlWriter, apiCache,
                  op, arg, api, dlRes, result, net, everOk >>
  /\ UNCHANGED beforeClear
  /\ UNCHANGED << afterOk, catFresh >>
  /\ UNCHANGED << schemaVars, clientVars, extraVars >>

\* ClearCache: apiCacheMu.Lock; c.apiCache = make(map...); Unlock.
CC_Clear2(p) ==
  /\ pc[p] = "cc_clear2"
  /\ apiCache' = [s \in ServiceIDs |-> 0]
  /\ afterOk' = [q \in Procs |-> IF pc[q] # "idle" THEN FALSE ELSE afterOk[q]]
  /\ everOk' = [s \in ServiceIDs |-> FALSE]
  /\ beforeClear' = [beforeClear EXCEPT
                       !.doc = [q \in Procs |-> pc[q] = "api_store"],
                       !.entry = [s \in ServiceIDs |-> FALSE]]
  /\ result' = [result EXCEPT ![p] = OkResult(0)]
  /\ pc' = [pc EXCEPT ![p] = "idle"]
  /\ UNCHANGED << now, discoveryListCache, discoveryListCacheTime, dlWriter,
                  op, arg, api, dlRes, net, catFresh, okStores >>
  /\ UNCHANGED << schemaVars, clientVars, extraVars >>

(***************************************************************************)
(* Part II.  components/dynamic-client/schema.go                           *)
(*                                                                         *)
(* A Go map is ranged over in an unspecified order, so a conversion is     *)
(* computed as the set of its possible outcomes, one per order in which    *)
(* the properties of each object node can be visited.                      *)
(***************************************************************************)

\* NewSchemaConverter: maxDepth: 10
maxDepth == 10

\* The inline nesting of the deepest input schema is at most MaxNest.
MaxNest == 12

\* The names in API.Schemas; "Zed" is referred to and never defined.
SchemaNames == {"A", "B"}

NoProps == [n \in {} |-> 0]

\* googleapismodule.Schema, all fields zero.
GSchema ==
  [type |-> "", ref |-> "", desc |-> "", default |-> "", enum |-> << >>,
   enumDescriptions |-> << >>, format |-> "", pattern |-> "",
   props |-> NoProps, addl |-> << >>, items |-> << >>]

GStr == [GSchema EXCEPT !.type = "string"]
GEnum == [GSchema EXCEPT !.type = "string", !.desc = "state", !.default = "ON",
                         !.enum = << "ON", "OFF" >>,
                         !.enumDescriptions = << "on", "off" >>,
                         !.format = "byte", !.pattern = "^O"]
GOdd == [GSchema EXCEPT !.type = "uint"]
GAny == [GSchema EXCEPT !.type = "any"]
GNone == [GSchema EXCEPT !.desc = "untyped"]
GRef(n) == [GSchema EXCEPT !.ref = n]
GArr(g) == [GSchema EXCEPT !.type = "array", !.items = << g >>]
GMap(g) == [GSchema EXCEPT !.type = "object", !.addl = << g >>]
GObj(g, h) == [GSchema EXCEPT !.type = "object", !.props = [n \in {"p", "q"} |-> IF n = "p" THEN g ELSE h]]
GObj1(g) == [GSchema EXCEPT !.type = "object", !.props = [n \in {"p"} |-> g]]

\* jsonschema.Schema, all fields zero; required is the Required list as a set.
JSchema ==
  [type |-> "", desc |-> "", default |-> "", enum |-> << >>, enumTitles |-> << >>,
   format |-> "", pattern |-> "", configurable |-> FALSE,
   props |-> NoProps, addl |-> << >>, items |-> << >>, required |-> {}]

\* schema := &jsonschema.Schema{}; schema.AddType(jsonschema.Object): the
\* opaque object placeholder.
Placeholder == [JSchema EXCEPT !.type = "object"]

\* depth > c.maxDepth
TooDeepOffByTwo(depth) == depth > maxDepth + 2
TooDeep(depth) == depth > maxDepth

\* c.visited[gSchema.Ref]
RefVisitedOnlyA(seen, ref) == ref = "A" /\ ref \in seen
RefVisited(seen, ref) == ref \in seen

\* The tag translation of schemaToJSONSchema's switch.
SchemaTypeOpen(t) ==
  IF t \in {"object", "array", "string", "integer", "number", "boolean"} THEN t ELSE ""
SchemaType(t) ==
  IF t \in {"object", "array", "string", "integer", "number", "boolean"} THEN t
  ELSE IF t = "any" THEN ""
  ELSE IF t # "" THEN "string"
  ELSE ""

\* schemaToJSONSchema, after the switch: description, default, enum (with
\* enumTitles), format, pattern, configurable.
WithAnnotations(js, g) ==
  [js EXCEPT !.desc = g.desc, !.default = g.default, !.enum = g.enum,
             !.enumTitles = IF Len(g.enum) > 0 THEN g.enumDescriptions ELSE << >>,
             !.format = g.format, !.pattern = g.pattern, !.configurable = TRUE]

Max(a, b) == IF a >= b THEN a ELSE b

\* The converter's state during one pass: c.visited, and as history the number
\* of times each named schema was expanded through a $ref, the number of
\* schemaToJSONSchema calls, the number of calls answered with a placeholder
\* because their $ref was visited already, the greatest depth a call was made
\* with and the greatest depth a call built a node at (one that is not a
\* placeholder).
NewPass(schemas) ==
  [visited |-> {}, exp |-> [n \in DOMAIN schemas |-> 0], calls |-> 0, cut |-> 0,
   reached |-> -1, built |-> -1]

RECURSIVE schemaToJSONSchema(_, _, _, _)
RECURSIVE ConvertProperties(_, _, _, _, _)

\* for name, prop := range props { properties[name] = schemaToJSONSchema(prop, depth) }
\* over the names still to visit, in every order: the set of [m, st].
ConvertProperties(schemas, props, names, depth, st) ==
  IF names = {} THEN { [m |-> NoProps, st |-> st] }
  ELSE UNION { UNION { { [m |-> (n :> first.s) @@ rest.m, st |-> rest.st] :
                           rest \in ConvertProperties(schemas, props, names \ {n},
                                                      depth, first.st) } :
                       first \in schemaToJSONSchema(schemas, props[n], depth, st) } :
               n \in names }

\* c.schemaToJSONSchema(gSchema, depth) with c.api.Schemas = schemas, started in
\* pass state st: the set of possible [s |-> result, st |-> pass state after].
schemaToJSONSchema(schemas, g, depth, st0) ==
  LET in == [st0 EXCEPT !.calls = @ + 1, !.reached = Max(@, depth)]
      st == [in EXCEPT !.built = Max(@, depth)]
  IN
  IF TooDeep(depth) THEN { [s |-> Placeholder, st |-> in] }
  ELSE IF g.ref # "" THEN
    IF RefVisited(in.visited, g.ref)
      THEN { [s |-> Placeholder, st |-> [in EXCEPT !.cut = @ + 1]] }
    ELSE LET marked == [in EXCEPT !.visited = @ \cup {g.ref}] IN
         IF g.ref \in DOMAIN schemas
           THEN schemaToJSONSchema(schemas, schemas[g.ref], depth + 1,
                                   [marked EXCEPT !.exp[g.ref] = @ + 1])
           ELSE { [s |-> Placeholder, st |-> marked] }
  ELSE IF g.type = "object" THEN
    LET base == [JSchema EXCEPT !.type = "object"]
        withProps ==
          IF DOMAIN g.props # {}
            THEN { [s |-> [base EXCEPT !.props = r.m], st |-> r.st] :
                     r \in ConvertProperties(schemas, g.props, DOMAIN g.props,
                                             depth + 1, st) }
            ELSE { [s |-> base, st |-> st] }
    IN IF g.addl # << >>
         THEN UNION { { [s |-> WithAnnotations([r.s EXCEPT !.addl = << a.s >>], g),
                         st |-> a.st] :
                          a \in schemaToJSONSchema(schemas, g.addl[1], depth + 1, r.st) } :
                      r \in withProps }
         ELSE { [s |-> WithAnnotations(r.s, g), st |-> r.st] : r \in withProps }
  ELSE IF g.type = "array" THEN
    LET base == [JSchema EXCEPT !.type = "array"] IN
    IF g.items # << >>
      THEN { [s |-> WithAnnotations([base EXCEPT !.items = << i.s >>], g), st |-> i.st] :
               i \in schemaToJSONSchema(schemas, g.items[1], depth + 1, st) }
      ELSE { [s |-> WithAnnotations(base, g), st |-> st] }
  ELSE { [s |-> WithAnnotations([JSchema EXCEPT !.type = SchemaType(g.type)], g),
          st |-> st] }

\* googleapismodule.Parameter, all fields zero.
GParameter ==
  [type |-> "", desc |-> "", default |-> "", enum |-> << >>,
   enumDescriptions |-> << >>, format |-> "", pattern |-> "",
   required |-> FALSE, location |-> "", items |-> << >>]

\* The tag translation of parameterToSchema's switch.
ParameterType(t) ==
  IF t \in {"string", "integer", "number", "boolean", "array"} THEN t ELSE "string"

RECURSIVE parameterToSchema(_)

parameterToSchema(param) ==
  LET typed == [JSchema EXCEPT !.type = ParameterType(param.type)]
      withItems == IF param.type = "array" /\ param.items # << >>
                     THEN [typed EXCEPT !.items = << parameterToSchema(param.items[1]) >>]
                     ELSE typed
  IN [withItems EXCEPT !.desc = param.desc, !.default = param.default,
                       !.enum = param.enum,
                       !.enumTitles = IF Len(param.enum) > 0
                                        THEN param.enumDescriptions ELSE << >>,
                       !.format = param.format, !.pattern = param.pattern,
                       !.configurable = TRUE]

\* DynamicSchema (Data, schemaData), zero value.
NoDynamicSchema == [schema |-> JSchema, data |-> NoProps]

\* for name, prop := range bodyJSONSchema.Properties { properties[name] = prop }
\* over the properties the parameters made: the body's properties are set
\* side by side with them, and last.
MergeWrapped(bodyProps, paramProps) ==
  ("body" :> [Placeholder EXCEPT !.props = bodyProps]) @@ paramProps
Merge(bodyProps, paramProps) == bodyProps @@ paramProps

\* c.BuildRequestSchema(method) with c.api.Schemas = schemas and c.visited =
\* seen: the set of possible [schema, data, visited, pass].
BuildRequestSchema(schemas, method, seen) ==
  LET params == method.parameters
      paramProps == [n \in DOMAIN params |-> parameterToSchema(params[n])]
      paramData == [n \in DOMAIN params |-> "nil"]
      base == [JSchema EXCEPT !.type = "object", !.configurable = TRUE,
                              !.required = { n \in DOMAIN params : params[n].required }]
  IN IF method.request = ""
       THEN { [schema |-> [base EXCEPT !.props = paramProps], data |-> paramData,
               visited |-> seen, pass |-> NewPass(schemas)] }
     ELSE IF method.request \notin DOMAIN schemas
       THEN { [schema |-> [base EXCEPT !.props = paramProps],
               data |-> ("_requestBodyRef" :> method.request) @@ paramData,
               visited |-> seen, pass |-> NewPass(schemas)] }
     ELSE { [schema |-> [base EXCEPT !.props = Merge(body.s.props, paramProps)],
             data |-> [n \in DOMAIN body.s.props |-> "nil"]
                        @@ ("_requestBodyRef" :> method.request) @@ paramData,
             visited |-> body.st.visited, pass |-> body.st] :
              body \in schemaToJSONSchema(schemas, schemas[method.request], 0,
                                          NewPass(schemas)) }

\* c.BuildResponseSchema(method): the set of possible [schema, data, visited, pass].
BuildResponseSchema(schemas, method, seen) ==
  LET object == [JSchema EXCEPT !.type = "object"] IN
  IF method.response = ""
    THEN { [schema |-> [object EXCEPT !.desc = "No response schema defined for this method"],
            data |-> ("_info" :> "No response schema defined"),
            visited |-> seen, pass |-> NewPass(schemas)] }
  ELSE IF method.response \notin DOMAIN schemas
    THEN { [schema |-> [object EXCEPT !.desc = "Response schema not found: " \o method.response],
            data |-> ("_error" :> ("Schema not found: " \o method.response)),
            visited |-> seen, pass |-> NewPass(schemas)] }
  ELSE LET found == schemas[method.response] IN
       { [schema |-> [object EXCEPT !.desc = found.desc, !.props = r.m],
          data |-> [n \in DOMAIN r.m |-> "nil"],
          visited |-> r.st.visited, pass |-> r.st] :
           r \in ConvertProperties(schemas, found.props,
                                   DOMAIN found.props, 0, NewPass(schemas)) }

\* The inputs: the schemas of a specification and a method of it.

\* Schemas that hold no other schema inline.
Leaves == { GStr, GRef("A"), GRef("B"), GRef("Zed") }

\* One level of structure over the leaves: through items, through
\* additionalProperties and through two sibling properties.
Shapes ==
  Leaves \cup { GArr(l) : l \in Leaves } \cup { GMap(l) : l \in Leaves }
         \cup { GObj(l, r) : l, r \in Leaves }

Others ==
  { GObj1(GRef("A")), GObj(GRef("A"), GRef("A")), GArr(GRef("A")), GMap(GRef("A")),
    GRef("A"), GEnum, GOdd, GAny, GNone }

\* A chain of n inline levels over leaf, going by turns through a property,
\* items and additionalProperties.
RECURSIVE Nest(_, _)
Nest(n, leaf) ==
  IF n = 0 THEN leaf
  ELSE IF n % 3 = 0 THEN GObj1(Nest(n - 1, leaf))
  ELSE IF n % 3 = 1 THEN GArr(Nest(n - 1, leaf))
  ELSE GMap(Nest(n - 1, leaf))

SchemaSets ==
  { [n \in SchemaNames |-> IF n = "A" THEN a ELSE b] : a \in Shapes, b \in Others }
    \cup { [n \in SchemaNames |-> IF n = "A" THEN Nest(k, l) ELSE GObj1(GRef("A"))] :
             k \in 1..MaxNest, l \in {GEnum, GRef("A")} }

Parameters ==
  [n \in {"id", "p", "fields"} |->
     IF n = "id" THEN [GParameter EXCEPT !.type = "string", !.required = TRUE,
                                         !.location = "path", !.desc = "The ID"]
     ELSE IF n = "p" THEN [GParameter EXCEPT !.type = "integer", !.location = "query",
                                             !.default = "10", !.format = "int32"]
     ELSE [GParameter EXCEPT !.type = "array", !.location = "query",
                             !.items = << [GParameter EXCEPT !.type = "string"] >>]]

\* Parameters without a type and with a type parameterToSchema has no case for.
OddParameters ==
  [n \in {"t", "u"} |->
     IF n = "t" THEN [GParameter EXCEPT !.location = "query", !.required = TRUE]
     ELSE [GParameter EXCEPT !.type = "uint64", !.location = "query"]]

\* googleapismodule.Method: its parameters and the $ref of its request and of
\* its response ("" when there is none).
Methods ==
  [parameters : {NoProps, Parameters, OddParameters}, request : {"", "A", "B", "Zed"},
   response : {"", "A", "B", "Zed"}]

\* NewSchemaConverter(api), for a method of api.
NewSchemaConverter ==
  /\ scSchemas \in SchemaSets
  /\ scMethod \in Methods
  /\ visited = {}
  /\ requestSchema = NoDynamicSchema
  /\ responseSchema = NoDynamicSchema
  /\ prevRequestSchema = NoDynamicSchema
  /\ prevResponseSchema = NoDynamicSchema
  /\ pass = NewPass(scSchemas)
  /\ lastOp = "new"

\* No converter: the state of the schema part while the caches are exercised.
NoSchemaConverter ==
  /\ scSchemas = [n \in SchemaNames |-> GStr]
  /\ scMethod = [parameters |-> NoProps, request |-> "", response |-> ""]
  /\ visited = {}
  /\ requestSchema = NoDynamicSchema
  /\ responseSchema = NoDynamicSchema
  /\ prevRequestSchema = NoDynamicSchema
  /\ prevResponseSchema = NoDynamicSchema
  /\ pass = NewPass(scSchemas)
  /\ lastOp = "new"

\* requestSchema = converter.BuildRequestSchema(method)
CallBuildRequestSchema ==
  \E r \in BuildRequestSchema(scSchemas, scMethod, visited) :
    /\ prevRequestSchema' = requestSchema
    /\ requestSchema' = [schema |-> r.schema, data |-> r.data]
    /\ visited' = r.visited
    /\ pass' = r.pass
    /\ lastOp' = "request"
    /\ UNCHANGED << scSchemas, scMethod, responseSchema, prevResponseSchema >>
    /\ UNCHANGED << cacheVars, clientVars, extraVars >>

\* responseSchema = converter.BuildResponseSchema(method)
CallBuildResponseSchema ==
  \E r \in BuildResponseSchema(scSchemas, scMethod, visited) :
    /\ prevResponseSchema' = responseSchema
    /\ responseSchema' = [schema |-> r.schema, data |-> r.data]
    /\ visited' = r.visited
    /\ pass' = r.pass
    /\ lastOp' = "response"
    /\ UNCHANGED << scSchemas, scMethod, requestSchema, prevRequestSchema >>
    /\ UNCHANGED << cacheVars, clientVars, extraVars >>

(***************************************************************************)
(* Part III.  components/dynamic-client/client.go                          *)
(*                                                                         *)
(* A text (a Go string that is taken apart or put together) is a sequence  *)
(* of tokens: a token is a word of letters and digits, one other           *)
(* character, or one %XX escape.  No text below holds two words in a row.  *)
(***************************************************************************)

\* The characters of the texts, apart from words: the reserved ones of
\* net/url's shouldEscape, the unreserved marks, and others.
Reserved == {"$", "&", "+", ",", "/", ":", ";", "=", "?", "@"}
Marks == {"-", "_", ".", "~"}
OtherChars == {" ", "{", "}", "#", "%"}

\* The %XX escape of a character.
Hex ==
  [c \in Reserved \cup OtherChars |->
     CASE c = "$" -> "%24" [] c = "&" -> "%26" [] c = "+" -> "%2B" [] c = "," -> "%2C"
       [] c = "/" -> "%2F" [] c = ":" -> "%3A" [] c = ";" -> "%3B" [] c = "=" -> "%3D"
       [] c = "?" -> "%3F" [] c = "@" -> "%40" [] c = " " -> "%20" [] c = "{" -> "%7B"
       [] c = "}" -> "%7D" [] c = "#" -> "%23" [] c = "%" -> "%25"]

\* url.PathEscape: net/url escapes in a path segment every character but the
\* letters, digits and marks and the reserved $ & + = : @.
PathEscapeNothing(t) == t
PathEscape(t) ==
  [i \in 1..Len(t) |->
     IF t[i] \in OtherChars \cup {"/", ";", ",", "?"} THEN Hex[t[i]] ELSE t[i]]

\* url.QueryEscape: every character but the letters, digits and marks is
\* escaped, the space as "+".
QueryEscape(t) ==
  [i \in 1..Len(t) |->
     IF t[i] = " " THEN "+"
     ELSE IF t[i] \in Reserved \cup OtherChars THEN Hex[t[i]] ELSE t[i]]

\* The text has the pattern at position i.
MatchAt(t, pat, i) ==
  /\ i + Len(pat) - 1 <= Len(t)
  /\ \A k \in 1..Len(pat) : t[i + k - 1] = pat[k]

\* strings.ReplaceAll(t, pat, by), for a non-empty pat: the non-overlapping
\* occurrences of pat, leftmost first, are replaced by by.
RECURSIVE ReplaceFrom(_, _, _, _)
ReplaceFrom(t, pat, by, i) ==
  IF i > Len(t) THEN << >>
  ELSE IF MatchAt(t, pat, i) THEN by \o ReplaceFrom(t, pat, by, i + Len(pat))
  ELSE << t[i] >> \o ReplaceFrom(t, pat, by, i + 1)
ReplaceAll(t, pat, by) == ReplaceFrom(t, pat, by, 1)

\* googleapismodule.Method, all fields zero.
GMethod ==
  [path |-> << >>, flatPath |-> << >>, httpMethod |-> "", desc |-> "",
   parameters |-> NoProps, request |-> "", response |-> ""]

PathParam == [GParameter EXCEPT !.type = "string", !.required = TRUE, !.location = "path"]
QueryParam == [GParameter EXCEPT !.type = "string", !.location = "query"]

\* "/v1/{spreadsheetId}/values/{range}"
ValuesPath ==
  << "/", "v1", "/", "{", "spreadsheetId", "}", "/", "values", "/", "{", "range", "}" >>

ValuesParameters ==
  [n \in {"spreadsheetId", "range", "majorDimension"} |->
     IF n = "majorDimension" THEN QueryParam ELSE PathParam]

ValuesGet ==
  [GMethod EXCEPT !.path = ValuesPath, !.httpMethod = "GET", !.desc = "Returns a range",
                  !.parameters = ValuesParameters, !.response = "A"]
ValuesUpdate ==
  [GMethod EXCEPT !.path = ValuesPath, !.httpMethod = "PUT",
                  !.parameters = ValuesParameters, !.request = "A", !.response = "A"]
\* "/v1/spreadsheets", no parameters
SheetsCreate ==
  [GMethod EXCEPT !.path = << "/", "v1", "/", "spreadsheets" >>, !.httpMethod = "POST",
                  !.request = "A", !.response = "A"]
\* path "/v1/{+name}"
OperationsGet ==
  [GMethod EXCEPT !.path = << "/", "v1", "/", "{", "+", "name", "}" >>,
                  !.httpMethod = "GET",
                  !.parameters = [n \in {"name"} |-> PathParam]]
\* "/v1/{+name}:cancel/{name}", both placeholder forms of one parameter
OperationsCancel ==
  [GMethod EXCEPT !.path = << "/", "v1", "/", "{", "+", "name", "}", ":", "cancel",
                              "/", "{", "name", "}" >>,
                  !.httpMethod = "DELETE",
                  !.parameters = [n \in {"name"} |-> PathParam]]
\* "/about", a top-level method
About == [GMethod EXCEPT !.path = << "/", "about" >>, !.httpMethod = "GET"]
\* "/feeds/{key}"
WorksheetsList ==
  [GMethod EXCEPT !.path = << "/", "feeds", "/", "{", "key", "}" >>, !.httpMethod = "GET",
                  !.parameters = [n \in {"key"} |-> PathParam]]
WorksheetsPatch ==
  [GMethod EXCEPT !.path = << "/", "feeds", "/", "{", "key", "}" >>, !.httpMethod = "PATCH",
                  !.parameters = [n \in {"key"} |-> PathParam], !.request = "A"]

\* path "/feeds/{+key}", flatPath "/feeds/{feedsId}": the flat form names its
\* placeholder after the path segment, not after the parameter
WorksheetsGet ==
  [GMethod EXCEPT !.path = << "/", "feeds", "/", "{", "+", "key", "}" >>,
                  !.flatPath = << "/", "feeds", "/", "{", "feedsId", "}" >>,
                  !.httpMethod = "GET",
                  !.parameters = [n \in {"key"} |-> PathParam]]
\* "/feeds/{+key}/cells/{range}", two path parameters, the first one raw
WorksheetsCell ==
  [GMethod EXCEPT !.path = << "/", "feeds", "/", "{", "+", "key", "}", "/", "cells",
                              "/", "{", "range", "}" >>,
                  !.httpMethod = "GET",
                  !.parameters = [n \in {"key", "range"} |-> PathParam]]

\* googleapismodule.Resource
GResource == [methods |-> NoProps, resources |-> NoProps]

\* googleapismodule.API: the documents the server serves for a service id, by
\* revision.  Revision 2 of sheets:v4 has one method more than revision 1.
SheetsSchemas == [n \in SchemaNames |-> IF n = "A" THEN GObj(GStr, GRef("B")) ELSE GEnum]

SheetsV4(rev) ==
  [baseUrl |-> << "https", ":", "/", "/", "sheets.googleapis.com" >>,
   rootUrl |-> << >>, servicePath |-> << >>,
   schemas |-> SheetsSchemas,
   methods |-> [n \in {"about"} |-> About],
   resources |->
     [r \in {"spreadsheets", "operations"} |->
        IF r = "spreadsheets"
          THEN [methods |-> [n \in {"create"} |-> SheetsCreate],
                resources |->
                  [v \in {"values"} |->
                     [GResource EXCEPT !.methods =
                        [n \in {"get", "update"} |->
                           IF n = "get" THEN ValuesGet ELSE ValuesUpdate]]]]
          ELSE [GResource EXCEPT !.methods =
                  [n \in (IF rev = 1 THEN {"get"} ELSE {"get", "cancel"}) |->
                     IF n = "get" THEN OperationsGet ELSE OperationsCancel]]]]

SheetsV3(rev) ==
  [baseUrl |-> << >>,
   rootUrl |-> << "https", ":", "/", "/", "spreadsheets.google.com" >>,
   servicePath |-> << "/", "v3" >>,
   schemas |-> SheetsSchemas,
   methods |-> NoProps,
   resources |->
     [r \in (IF rev = 1 THEN {"worksheets"} ELSE {}) |->
        [GResource EXCEPT !.methods =
           [n \in {"cell", "get", "list", "patch"} |->
              CASE n = "cell" -> WorksheetsCell [] n = "get" -> WorksheetsGet
                [] n = "list" -> WorksheetsList [] n = "patch" -> WorksheetsPatch]]]]

\* The document fetchAPI decodes for a service id, at a revision.
Specification(id, rev) == IF id = "sheets:v4" THEN SheetsV4(rev) ELSE SheetsV3(rev)

\* getMethodsFromResource(prefix, resource): the MethodInfo entries, as a set.
RECURSIVE getMethodsFromResource(_, _)
getMethodsNoNesting(prefix, resource) ==
  { [fullName |-> prefix \o "." \o n, method |-> resource.methods[n], resource |-> prefix] :
      n \in DOMAIN resource.methods }
getMethodsFromResource(prefix, resource) ==
  { [fullName |-> prefix \o "." \o n, method |-> resource.methods[n], resource |-> prefix] :
      n \in DOMAIN resource.methods }
    \cup UNION { getMethodsFromResource(prefix \o "." \o r, resource.resources[r]) :
                   r \in DOMAIN resource.resources }

\* api.GetAllMethods(): the MethodInfo entries, as a set (the slice's order is
\* that of Go's map iteration).
GetAllMethods(doc) ==
  { [fullName |-> n, method |-> doc.methods[n], resource |-> ""] : n \in DOMAIN doc.methods }
    \cup UNION { getMethodsFromResource(r, doc.resources[r]) : r \in DOMAIN doc.resources }

\* The full names of the methods of the documents, in ascending string order,
\* and the order itself.
FullNames ==
  << "about", "operations.cancel", "operations.get", "spreadsheets.create",
     "spreadsheets.values.get", "spreadsheets.values.update",
     "worksheets.cell", "worksheets.get", "worksheets.list", "worksheets.patch" >>
NameRank(n) == CHOOSE i \in 1..Len(FullNames) : FullNames[i] = n

\* The rearrangements of a slice.
Permuted(seq, key) ==
  { [i \in 1..Len(seq) |-> seq[f[i]]] :
      f \in { g \in [1..Len(seq) -> 1..Len(seq)] :
                \A i, j \in 1..Len(seq) : i # j => g[i] # g[j] } }

\* sort.Slice(seq, less by key): a rearrangement of the slice in ascending key
\* order; elements with equal keys come in any order (the sort is not stable).
Unsorted(seq, key) == Permuted(seq, key)
SortSlice(seq, key) ==
  { s \in Permuted(seq, key) :
      \A i, j \in 1..Len(s) : i < j => key[s[i]] <= key[s[j]] }

\* sort.Slice on a key without ties: the elements of set in ascending key order.
RECURSIVE Sorted(_, _)
Sorted(set, key) ==
  IF set = {} THEN << >>
  ELSE LET least == CHOOSE x \in set : \A y \in set : key[x] <= key[y]
       IN << least >> \o Sorted(set \ {least}, key)

\* GetServices, from the directory on: a ServiceOption for each item, sorted by
\* title.
ServicesOf(items) ==
  SortSlice(items, [x \in { items[i] : i \in 1..Len(items) } |-> x.title])

\* GetPreferredServices, from the services on: those with Preferred set, in
\* their order.
PreferredOf(services) == SelectSeq(services, LAMBDA x : x.preferred)

\* GetMethods, from the document on: GetAllMethods sorted by full name.
MethodsOf(doc) ==
  LET all == GetAllMethods(doc) IN Sorted(all, [x \in all |-> NameRank(x.fullName)])

(***************************************************************************)
(* The discovery client as its one component calls it, a call at a time:   *)
(* each operation is the set of its possible outcomes, the client's fields *)
(* after the call with what the call returned.  cs holds the fields        *)
(* discoveryListCache (list), discoveryListCacheTime (time), apiCache      *)
(* (apis); t is time.Now().                                                *)
(***************************************************************************)

\* getDiscoveryList: the cached directory while it is valid, else a fetch,
\* which fails or stores what it decoded.
getDiscoveryList(cs, t) ==
  IF cs.list # 0 /\ t - cs.time < cacheTTL
    THEN { [cs |-> cs, ok |-> TRUE, cat |-> cs.list, err |-> "", net |-> {}] }
    ELSE { [cs |-> cs, ok |-> FALSE, cat |-> 0, err |-> e, net |-> {"catalog"}] :
             e \in FetchErrors }
           \cup { [cs |-> [cs EXCEPT !.list = c, !.time = t], ok |-> TRUE, cat |-> c,
                   err |-> "", net |-> {"catalog"}] : c \in CatalogRefs }

\* GetServices: the items of the directory sorted by title.
GetServices(cs, t) ==
  UNION { { [cs |-> r.cs, ok |-> r.ok, err |-> r.err, net |-> r.net, services |-> s] :
              s \in (IF r.ok THEN ServicesOf(Catalogs[r.cat]) ELSE { << >> }) } :
          r \in getDiscoveryList(cs, t) }

\* GetPreferredServices: those of GetServices with Preferred set.
GetPreferredServices(cs, t) ==
  { [r EXCEPT !.services = PreferredOf(r.services)] : r \in GetServices(cs, t) }

\* GetAPI: the cached document, else getDiscoveryURL (the directory must list
\* the id), fetchAPI and the store.  A document is its revision.
GetAPI(cs, t, id) ==
  IF cs.apis[id] # 0
    THEN { [cs |-> cs, ok |-> TRUE, rev |-> cs.apis[id], err |-> "", net |-> {}] }
    ELSE UNION {
      IF ~r.ok
        THEN { [cs |-> r.cs, ok |-> FALSE, rev |-> 0, err |-> r.err, net |-> r.net] }
      ELSE IF id \notin CatalogIDs(r.cat)
        THEN { [cs |-> r.cs, ok |-> FALSE, rev |-> 0, err |-> "not found", net |-> r.net] }
      ELSE { [cs |-> r.cs, ok |-> FALSE, rev |-> 0, err |-> e,
              net |-> r.net \cup {"spec"}] : e \in FetchErrors }
             \cup { [cs |-> [r.cs EXCEPT !.apis[id] = rev], ok |-> TRUE, rev |-> rev,
                     err |-> "", net |-> r.net \cup {"spec"}] : rev \in Revisions } :
      r \in getDiscoveryList(cs, t) }

\* GetMethods: GetAllMethods of the document, sorted by full name.
GetMethods(cs, t, id) ==
  { [cs |-> r.cs, ok |-> r.ok, err |-> r.err, net |-> r.net,
     methods |-> IF r.ok THEN MethodsOf(Specification(id, r.rev)) ELSE << >>] :
      r \in GetAPI(cs, t, id) }

\* The keys of a request's parameter values, in ascending string order.
DataKeys ==
  << "key", "majorDimension", "name", "range", "spreadsheetId", "title", "values" >>
KeyRank(k) == CHOOSE i \in 1..Len(DataKeys) : DataKeys[i] = k

\* url.Values.Encode(): key=value pairs, sorted by key, joined by "&", both
\* sides query-escaped.
RECURSIVE EncodePairs(_, _)
EncodePairs(values, keys) ==
  IF keys = << >> THEN << >>
  ELSE QueryEscape(<< Head(keys) >>) \o << "=" >> \o QueryEscape(values[Head(keys)])
         \o (IF Tail(keys) = << >> THEN << >> ELSE << "&" >>)
         \o EncodePairs(values, Tail(keys))
Encode(values) ==
  EncodePairs(values, Sorted(DOMAIN values, [k \in DOMAIN values |-> KeyRank(k)]))

\* executeRequest: the partition of the parameter values, lines 446-464.
PathParams(data, method) ==
  { n \in DOMAIN data : n \in DOMAIN method.parameters
                          /\ method.parameters[n].location = "path" }
QueryParams(data, method) == DOMAIN data \ PathParams(data, method)

\* for name, value := range pathParams { ReplaceAll {name}; ReplaceAll {+name} }
\* over the names still to process, in every order: the set of paths.
RECURSIVE Substitute(_, _, _)
Substitute(path, data, names) ==
  IF names = {} THEN { path }
  ELSE UNION { Substitute(ReplaceAll(ReplaceAll(path, << "{", n, "}" >>, PathEscape(data[n])),
                                     << "{", "+", n, "}" >>, data[n]),
                          data, names \ {n}) : n \in names }

\* The verbs executeRequest prepares a body for.
BodyVerbsAll == {"POST", "PUT", "PATCH", "DELETE", "GET"}
BodyVerbs == {"POST", "PUT", "PATCH"}

\* bodyData: the values that are neither path nor query parameters.
BodyData(data, method) ==
  { n \in DOMAIN data : n \notin DOMAIN method.parameters
                          \/ method.parameters[n].location \notin {"path", "query"} }

\* *http.Request as executeRequest builds it; NoRequest when none was made.
\* A nil bodyReader is hasBody = FALSE.
NoRequest ==
  [made |-> FALSE, verb |-> "", url |-> << >>, path |-> << >>, query |-> {},
   hasBody |-> FALSE, body |-> NoProps]

\* The requests executeRequest may build for a method and parameter values
\* (one per order the path parameters are processed in).
BuildRequest(doc, method, data) ==
  LET baseURL == IF doc.baseUrl = << >> THEN doc.rootUrl \o doc.servicePath
                 ELSE doc.baseUrl
      template == IF method.flatPath = << >> THEN method.path ELSE method.flatPath
      query == QueryParams(data, method)
      bodyData == IF method.httpMethod \in BodyVerbs THEN BodyData(data, method) ELSE {}
  IN { [made |-> TRUE, verb |-> method.httpMethod,
        url |-> baseURL \o path
                  \o (IF query # {} THEN << "?" >> \o Encode([k \in query |-> data[k]])
                      ELSE << >>),
        path |-> path, query |-> query,
        hasBody |-> bodyData # {}, body |-> [k \in bodyData |-> data[k]]] :
         path \in Substitute(template, data, PathParams(data, method)) }

\* What client.Do and io.ReadAll may give: a transport failure, a read
\* failure, or a status with a body.  net/http follows redirects and skips
\* interim responses, so a 3xx reaches the caller when it has no Location
\* (304) and a 1xx only as 101.
Statuses == {101, 200, 204, 304, 404, 500}
StatusText ==
  [s \in Statuses |->
     CASE s = 101 -> "101" [] s = 200 -> "200" [] s = 204 -> "204"
       [] s = 304 -> "304" [] s = 404 -> "404" [] s = 500 -> "500"]
RawBodies == {"", "{\"error\":\"not found\"}", "[1,2]", "<html>"}
Replies ==
  { [kind |-> "transport", status |-> 0, raw |-> ""] }
    \cup { [kind |-> "unread", status |-> s, raw |-> ""] : s \in {200} }
    \cup { [kind |-> "response", status |-> s, raw |-> b] : s \in Statuses, b \in RawBodies }
NoReply == [kind |-> "none", status |-> 0, raw |-> ""]

\* json.Unmarshal(respBody, &bodyData), the raw text when it fails, nil for
\* an empty body: the dynamic type of bodyData with its value.
ParseBody(raw) ==
  IF raw = "" THEN [type |-> "nil", map |-> NoProps, value |-> ""]
  ELSE IF raw = "{\"error\":\"not found\"}"
    THEN [type |-> "map", map |-> [k \in {"error"} |-> "not found"], value |-> ""]
  ELSE IF raw = "[1,2]" THEN [type |-> "slice", map |-> NoProps, value |-> raw]
  ELSE [type |-> "string", map |-> NoProps, value |-> raw]

\* fmt's %v of bodyData.
FormatBody(b) ==
  IF b.type = "nil" THEN "<nil>"
  ELSE IF b.type = "map" THEN "map[error:not found]"
  ELSE IF b.type = "slice" THEN "[1 2]"
  ELSE b.value

\* The status check of executeRequest.
ErrorStatusFrom200(status) == status >= 200
ErrorStatus(status) == status >= 400

\* A message on a port: Response (statusCode, headers, body) or Error (error,
\* code), with the fields of the other zero.
NoMessage ==
  [context |-> "", statusCode |-> 0, headers |-> NoProps, body |-> NoProps,
   wrapped |-> ParseBody(""), error |-> << >>, code |-> 0]

\* ResponseBody{DynamicSchema{Data: ...}}: the decoded object, or the value
\* under the key "data" (held in wrapped).
ResponseOf(status, b) ==
  [NoMessage EXCEPT !.statusCode = status,
                    !.headers = [h \in {"Content-Type"} |-> "application/json"],
                    !.body = IF b.type = "map" THEN b.map ELSE [k \in {"data"} |-> b.type],
                    !.wrapped = IF b.type = "map" THEN ParseBody("") ELSE b]

\* executeRequest(ctx, serviceID, methodName, req) on the client fields cs at
\* time t: the set of possible outcomes, each the client fields after, the
\* (*Response, error) returned, and as history the request sent, the reply
\* and the discovery fetches.
executeRequest(cs, t, serviceID, methodName, req) ==
  UNION {
    IF ~a.ok
      THEN { [cs |-> a.cs, ok |-> FALSE, response |-> NoMessage,
              err |-> << "failed to get API spec: ", a.err >>, method |-> GMethod,
              sent |-> NoRequest, reply |-> NoReply, net |-> a.net] }
    ELSE LET doc == Specification(serviceID, a.rev)
             found == { m \in GetAllMethods(doc) : m.fullName = methodName }
         IN IF found = {}
              THEN { [cs |-> a.cs, ok |-> FALSE, response |-> NoMessage,
                      err |-> << "method ", methodName, " not found" >>,
                      method |-> GMethod,
                      sent |-> NoRequest, reply |-> NoReply, net |-> a.net] }
            ELSE UNION { UNION { {
              LET out == [cs |-> a.cs, ok |-> FALSE, response |-> NoMessage, err |-> << >>,
                          method |-> m.method, sent |-> q, reply |-> r, net |-> a.net \cup {"call"}]
                  b == ParseBody(r.raw)
              IN IF r.kind = "transport"
                   THEN [out EXCEPT !.err = << "request failed: ", "transport" >>]
                 ELSE IF r.kind = "unread"
                   THEN [out EXCEPT !.err = << "failed to read response: ", "read" >>]
                 ELSE IF ErrorStatus(r.status)
                   THEN [out EXCEPT !.err = << "API error ", StatusText[r.status], ": ",
                                               FormatBody(b) >>]
                 ELSE [out EXCEPT !.ok = TRUE, !.response = ResponseOf(r.status, b)] :
                r \in Replies } :
                q \in BuildRequest(doc, m.method, req.data) } : m \in found } :
    a \in GetAPI(cs, t, serviceID) }

\* The error text of handleRequest when nothing is selected.
NotSelected == << "service and method must be selected in settings" >>

\* What Handle returned: nil, the handler's result or an error.
NoReturn == [kind |-> "none", err |-> << >>]
ReturnNil == [kind |-> "nil", err |-> << >>]
ReturnHandler == [kind |-> "handler", err |-> << >>]
ReturnError(e) == [kind |-> "error", err |-> e]

\* The record of a handleRequest call (its parameter values, the method found,
\* the request sent, the reply, the fetches); NoExec when none is on record.
NoExec ==
  [handled |-> FALSE, data |-> NoProps, context |-> "", method |-> GMethod,
   sent |-> NoRequest, reply |-> NoReply, net |-> {}]

\* The fields a handleSettings call may change, as a record.
Fields ==
  [settings |-> settings, servicesAvailable |-> servicesAvailable,
   servicesLabels |-> servicesLabels, methodsAvailable |-> methodsAvailable,
   methodsLabels |-> methodsLabels, currentMethod |-> currentMethod,
   requestSchema |-> requestSchema, responseSchema |-> responseSchema]

\* The record of a handleSettings call: the message, the fields before it,
\* and which of discoverServices, discoverMethods and buildSchemas it called
\* (tried) and which of them returned nil (ok); NoEvent when none is on record.
NoEvent ==
  [handled |-> FALSE,
   in |-> [service |-> "", method |-> "", enableErrorPort |-> FALSE],
   old |-> [settings |-> [service |-> "", method |-> "", enableErrorPort |-> FALSE],
            servicesAvailable |-> << >>, servicesLabels |-> << >>,
            methodsAvailable |-> << >>, methodsLabels |-> << >>, currentMethod |-> "",
            requestSchema |-> NoDynamicSchema, responseSchema |-> NoDynamicSchema],
   tried |-> {}, ok |-> {}, built |-> ""]

\* The messages on the request port: a context and the parameter values, at
\* most MaxKeys of them.
MaxKeys == 2

Values ==
  [k \in { DataKeys[i] : i \in 1..Len(DataKeys) } |->
     CASE k = "spreadsheetId" -> { << "S1" >> }
       [] k = "range" -> { << "A1", ":", "B2" >> }
       [] k = "name" -> { << "operations", "/", "op1" >>, << "a", " ", "b" >> }
       [] k = "key" -> { << "x" >>, << "{", "range", "}" >> }
       [] OTHER -> { << "x" >> }]

Requests ==
  UNION { { [context |-> "ctx", token |-> "tok", data |-> d] :
              d \in { f \in [K -> UNION { Values[k] : k \in K }] :
                        \A k \in K : f[k] \in Values[k] } } :
          K \in { S \in SUBSET { DataKeys[i] : i \in 1..Len(DataKeys) } :
                    Cardinality(S) <= MaxKeys } }

\* Component.Instance()
Instance ==
  /\ settings = [service |-> "", method |-> "", enableErrorPort |-> FALSE]
  /\ servicesAvailable = << >>
  /\ servicesLabels = << >>
  /\ methodsAvailable = << >>
  /\ methodsLabels = << >>
  /\ currentMethod = ""
  /\ exec = NoExec
  /\ emitted = << >>
  /\ returned = NoReturn
  /\ event = NoEvent
  /\ ports = << >>

\* handleRequest: with enableErrorPort the error goes to the error port and
\* the handler's result is returned, else the error is returned.
Fail(in, e, eep) ==
  IF eep
    THEN /\ emitted' = << [port |-> "error",
                           msg |-> [NoMessage EXCEPT !.context = in.context, !.error = e]] >>
         /\ returned' = ReturnHandler
    ELSE /\ emitted' = << >>
         /\ returned' = ReturnError(e)

\* c.settingsLock.RLock() ... RUnlock(): the selection, the option lists and
\* the stored schemas are read, none is assigned.
ReadSettingsResetMethod ==
  /\ settings' = [settings EXCEPT !.method = ""]
  /\ UNCHANGED << servicesAvailable, servicesLabels, methodsAvailable, methodsLabels,
                  requestSchema, responseSchema >>
ReadSettings ==
  UNCHANGED << settings, servicesAvailable, servicesLabels, methodsAvailable,
               methodsLabels, requestSchema, responseSchema >>

\* if serviceID == "" || methodName == ""
UnselectedBoth(serviceID, methodName) == serviceID = "" /\ methodName = ""
Unselected(serviceID, methodName) == serviceID = "" \/ methodName = ""

\* Handle(ctx, handler, "request", in) = handleRequest, with the
\* executeRequest it calls.  The port delivers a message once the result of
\* the one before has been taken.
HandleRequest(in) ==
  /\ returned = NoReturn
  /\ IF Unselected(settings.service, settings.method)
       THEN /\ Fail(in, NotSelected, settings.enableErrorPort)
            /\ exec' = [NoExec EXCEPT !.handled = TRUE, !.data = in.data,
                                      !.context = in.context]
            /\ UNCHANGED << discoveryListCache, discoveryListCacheTime, apiCache >>
       ELSE \E r \in executeRequest([list |-> discoveryListCache,
                                     time |-> discoveryListCacheTime,
                                     apis |-> apiCache],
                                    now, settings.service, settings.method, in) :
              /\ discoveryListCache' = r.cs.list
              /\ discoveryListCacheTime' = r.cs.time
              /\ apiCache' = r.cs.apis
              /\ exec' = [handled |-> TRUE, data |-> in.data, context |-> in.context,
                          method |-> r.method, sent |-> r.sent, reply |-> r.reply, net |-> r.net]
              /\ IF r.ok
                   THEN /\ emitted' = << [port |-> "response",
                                          msg |-> [r.response EXCEPT !.context = in.context]] >>
                        /\ returned' = ReturnHandler
                   ELSE Fail(in, r.err, settings.enableErrorPort)
  /\ ReadSettings
  /\ UNCHANGED extraVars
  /\ UNCHANGED << currentMethod, event, ports >>
  /\ UNCHANGED << now, dlWriter, pc, op, arg, api, dlRes, result, net, everOk,
                  afterOk, catFresh, okStores >>
  /\ UNCHANGED beforeClear
  /\ UNCHANGED << scSchemas, scMethod, visited, prevRequestSchema, prevResponseSchema,
                  pass, lastOp >>

\* A module.Port: its name and its Configuration (the Settings with the
\* option lists, or the schema of the request or response port).
NoConfiguration ==
  [service |-> [value |-> "", options |-> << >>, labels |-> << >>],
   method |-> [value |-> "", options |-> << >>, labels |-> << >>],
   enableErrorPort |-> FALSE, schema |-> NoDynamicSchema]

\* What Handle returned: the ports.
ReturnPorts == [kind |-> "ports", err |-> << >>]

\* The ports Ports() returns: the settings port with the current selection
\* and options, the request and response ports with the stored schemas, and
\* the error port when EnableErrorPort is set.
PortList ==
  << [name |-> "_settings",
      configuration |->
        [NoConfiguration EXCEPT
           !.service = [value |-> settings.service, options |-> servicesAvailable,
                        labels |-> servicesLabels],
           !.method = [value |-> settings.method, options |-> methodsAvailable,
                       labels |-> methodsLabels],
           !.enableErrorPort = settings.enableErrorPort]],
     [name |-> "request",
      configuration |-> [NoConfiguration EXCEPT !.schema = requestSchema]],
     [name |-> "response",
      configuration |-> [NoConfiguration EXCEPT !.schema = responseSchema]] >>
    \o (IF settings.enableErrorPort
          THEN << [name |-> "error", configuration |-> NoConfiguration] >>
          ELSE << >>)

\* Component.Ports(), under c.settingsLock.RLock.
Ports ==
  /\ returned = NoReturn
  /\ ports' = PortList
  /\ returned' = ReturnPorts
  /\ ReadSettings
  /\ UNCHANGED extraVars
  /\ UNCHANGED << currentMethod, exec, emitted, event >>
  /\ UNCHANGED << cacheVars, scSchemas, scMethod, visited, prevRequestSchema,
                  prevResponseSchema, pass, lastOp >>

\* The caller of Handle takes its result and the messages it emitted.
TakeResult ==
  /\ returned # NoReturn
  /\ returned' = NoReturn
  /\ emitted' = << >>
  /\ exec' = NoExec
  /\ event' = NoEvent
  /\ ports' = << >>
  /\ UNCHANGED << settings, servicesAvailable, servicesLabels, methodsAvailable,
                  methodsLabels, currentMethod >>
  /\ UNCHANGED << cacheVars, schemaVars, extraVars >>

\* A component whose settings were set by a handleSettings event during
\* which every discovery call failed: nothing is cached or listed.
Selected ==
  /\ settings \in [service : {""} \cup ServiceIDs,
                   method : {"", "about", "spreadsheets.create", "spreadsheets.values.get",
                             "spreadsheets.values.update", "operations.cancel",
                             "worksheets.patch", "worksheets.get", "worksheets.cell"},
                   enableErrorPort : BOOLEAN]
  /\ servicesAvailable = << >>
  /\ servicesLabels = << >>
  /\ methodsAvailable = << >>
  /\ methodsLabels = << >>
  /\ currentMethod = ""
  /\ exec = NoExec
  /\ emitted = << >>
  /\ returned = NoReturn
  /\ event = NoEvent
  /\ ports = << >>


\* discoverServices: on success the ids and titles of the preferred services
\* replace the lists.  The set of [cs, ok, ids, labels].
discoverServices(cs, t) ==
  { [cs |-> r.cs, ok |-> r.ok,
     ids |-> [i \in 1..Len(r.services) |-> r.services[i].id],
     labels |-> [i \in 1..Len(r.services) |-> r.services[i].title]] :
      r \in GetPreferredServices(cs, t) }

\* The label of a method: its full name, with the description when there is
\* one (the descriptions of the documents are shorter than 80 characters).
MethodLabel(info) ==
  IF info.method.desc # "" THEN << info.fullName, " - ", info.method.desc >>
  ELSE << info.fullName >>

\* discoverMethods: on success the full names and labels of the service's
\* methods replace the lists.  The set of [cs, ok, names, labels].
discoverMethods(cs, t, serviceID) ==
  { [cs |-> r.cs, ok |-> r.ok,
     names |-> [i \in 1..Len(r.methods) |-> r.methods[i].fullName],
     labels |-> [i \in 1..Len(r.methods) |-> MethodLabel(r.methods[i])]] :
      r \in GetMethods(cs, t, serviceID) }

\* buildSchemas: GetAPI, then for the method of that name a new converter
\* builds the request and the response schema.  The set of
\* [cs, ok, request, response].
buildSchemas(cs, t, serviceID, methodName) ==
  UNION {
    IF ~a.ok
      THEN { [cs |-> a.cs, ok |-> FALSE, request |-> NoDynamicSchema,
              response |-> NoDynamicSchema] }
    ELSE LET doc == Specification(serviceID, a.rev)
             found == { x \in GetAllMethods(doc) : x.fullName = methodName }
         IN IF found = {}
              THEN { [cs |-> a.cs, ok |-> FALSE, request |-> NoDynamicSchema,
                      response |-> NoDynamicSchema] }
            ELSE UNION { UNION { {
                   [cs |-> a.cs, ok |-> TRUE,
                    request |-> [schema |-> q.schema, data |-> q.data],
                    response |-> [schema |-> r.schema, data |-> r.data]] :
                     r \in BuildResponseSchema(doc.schemas, x.method, q.visited) } :
                     q \in BuildRequestSchema(doc.schemas, x.method, {}) } : x \in found } :
    a \in GetAPI(cs, t, serviceID) }

\* The Settings messages.
SettingsMessages ==
  [service : {""} \cup ServiceIDs,
   method : {"", "spreadsheets.values.get", "operations.cancel", "worksheets.list"},
   enableErrorPort : BOOLEAN]

\* if len(c.methodsAvailable) == 0 || serviceChanged, for a selected service
RediscoverAlways(changed, methods) == TRUE
Rediscover(changed, methods) == changed \/ Len(methods) = 0

\* if serviceChanged && oldServiceValue != "": the method selection is reset.
ResetMethodOnInit(changed, old) == changed
ResetMethod(changed, old) == changed /\ old # ""

\* The method lists when no service is selected.
KeepMethods(methods) == methods
NoServiceMethods(methods) == << >>

\* buildSchemas assigns the schemas only once the method is found: after an
\* error the stored ones are the previous ones.
StoredAlways(ok, new, old) == new
Stored(ok, new, old) == IF ok THEN new ELSE old

\* Handle(ctx, handler, "_settings", in) = handleSettings, under
\* c.settingsLock from its first step to its return, with the discovery calls
\* it makes.
HandleSettings(in) ==
  /\ returned = NoReturn
  /\ LET cs0 == [list |-> discoveryListCache, time |-> discoveryListCacheTime,
                 apis |-> apiCache]
         old == settings.service
         changed == old # in.service
         method == IF ResetMethod(changed, old) THEN "" ELSE in.method
         methodToUse == IF method = "" THEN in.method ELSE method
     IN \E s \in (IF Len(servicesAvailable) = 0 THEN discoverServices(cs0, now)
                  ELSE { [cs |-> cs0, ok |-> TRUE, ids |-> servicesAvailable,
                          labels |-> servicesLabels] }) :
        \E d \in (IF in.service = ""
                    THEN { [cs |-> s.cs, ok |-> TRUE,
                            names |-> NoServiceMethods(methodsAvailable),
                            labels |-> NoServiceMethods(methodsLabels)] }
                  ELSE IF Rediscover(changed, methodsAvailable)
                    THEN discoverMethods(s.cs, now, in.service)
                  ELSE { [cs |-> s.cs, ok |-> TRUE, names |-> methodsAvailable,
                          labels |-> methodsLabels] }) :
        \E b \in (IF in.service # "" /\ methodToUse # ""
                    THEN buildSchemas(d.cs, now, in.service, methodToUse)
                  ELSE { [cs |-> d.cs, ok |-> FALSE, request |-> NoDynamicSchema,
                          response |-> NoDynamicSchema] }) :
          /\ servicesAvailable' = IF s.ok THEN s.ids ELSE servicesAvailable
          /\ servicesLabels' = IF s.ok THEN s.labels ELSE servicesLabels
          /\ methodsAvailable' = d.names
          /\ methodsLabels' = d.labels
          /\ settings' = [service |-> in.service, method |-> method,
                          enableErrorPort |-> in.enableErrorPort]
          /\ requestSchema' = Stored(b.ok, b.request, requestSchema)
          /\ responseSchema' = Stored(b.ok, b.response, responseSchema)
          /\ currentMethod' = IF b.ok THEN methodToUse ELSE currentMethod
          /\ discoveryListCache' = b.cs.list
          /\ discoveryListCacheTime' = b.cs.time
          /\ apiCache' = b.cs.apis
          /\ event' =
               [handled |-> TRUE, in |-> in, old |-> Fields,
                tried |-> (IF Len(servicesAvailable) = 0 THEN {"services"} ELSE {})
                            \cup (IF in.service # "" /\ Rediscover(changed, methodsAvailable)
                                    THEN {"methods"} ELSE {})
                            \cup (IF in.service # "" /\ methodToUse # ""
                                    THEN {"schemas"} ELSE {}),
                ok |-> (IF Len(servicesAvailable) = 0 /\ s.ok THEN {"services"} ELSE {})
                         \cup (IF in.service # "" /\ Rediscover(changed, methodsAvailable)
                                  /\ d.ok THEN {"methods"} ELSE {})
                         \cup (IF b.ok THEN {"schemas"} ELSE {}),
                built |-> IF b.ok THEN methodToUse ELSE ""]
  /\ returned' = ReturnNil
  /\ UNCHANGED extraVars
  /\ UNCHANGED << exec, emitted, ports >>
  /\ UNCHANGED << now, dlWriter, pc, op, arg, api, dlRes, result, net, everOk,
                  afterOk, catFresh, okStores >>
  /\ UNCHANGED beforeClear
  /\ UNCHANGED << scSchemas, scMethod, visited, prevRequestSchema, prevResponseSchema,
                  pass, lastOp >>

(***************************************************************************)
(* The listing functions on a directory and on a document                  *)
(***************************************************************************)

\* The items of the directories: id, title (by its rank in string order) and
\* the preferred flag; a directory has at most MaxItems of them.
MaxItems == 3

Items == [id : ServiceIDs, title : {1, 2}, preferred : BOOLEAN]

RECURSIVE SeqsUpTo(_, _)
SeqsUpTo(S, n) ==
  IF n = 0 THEN { << >> }
  ELSE SeqsUpTo(S, n - 1)
         \cup { Append(s, x) : s \in { q \in SeqsUpTo(S, n - 1) : Len(q) = n - 1 }, x \in S }

Directories == SeqsUpTo(Items, MaxItems)

NoListing == [op |-> "", services |-> << >>, entries |-> {}, methods |-> << >>]

\* No call of a listing function yet.
NoDirectory ==
  /\ dirItems = << >>
  /\ dirDoc = [id |-> "sheets:v4", rev |-> 1]
  /\ listing = NoListing

\* A decoded directory and a decoded document.
Decoded ==
  /\ dirItems \in Directories
  /\ dirDoc \in [id : ServiceIDs, rev : Revisions]
  /\ listing = NoListing

\* services, err := c.GetServices(ctx), the directory fetched
CallServicesOf ==
  /\ \E s \in ServicesOf(dirItems) :
       listing' = [NoListing EXCEPT !.op = "GetServices", !.services = s]
  /\ UNCHANGED << dirItems, dirDoc >>
  /\ UNCHANGED << cacheVars, schemaVars, clientVars, opVars, listenVars, concVars >>

\* preferred, err := c.GetPreferredServices(ctx), the directory fetched
CallPreferredOf ==
  /\ \E s \in ServicesOf(dirItems) :
       listing' = [NoListing EXCEPT !.op = "GetPreferredServices",
                                    !.services = PreferredOf(s)]
  /\ UNCHANGED << dirItems, dirDoc >>
  /\ UNCHANGED << cacheVars, schemaVars, clientVars, opVars, listenVars, concVars >>

\* methods := api.GetAllMethods()
CallGetAllMethods ==
  /\ listing' = [NoListing EXCEPT !.op = "GetAllMethods",
                                  !.entries = GetAllMethods(Specification(dirDoc.id, dirDoc.rev))]
  /\ UNCHANGED << dirItems, dirDoc >>
  /\ UNCHANGED << cacheVars, schemaVars, clientVars, opVars, listenVars, concVars >>

\* methods, err := c.GetMethods(ctx, serviceID), the document fetched
CallMethodsOf ==
  /\ listing' = [NoListing EXCEPT !.op = "GetMethods",
                                  !.methods = MethodsOf(Specification(dirDoc.id, dirDoc.rev))]
  /\ UNCHANGED << dirItems, dirDoc >>
  /\ UNCHANGED << cacheVars, schemaVars, clientVars, opVars, listenVars, concVars >>

(***************************************************************************)
(* The fixed-operation components: firestore_delete_doc and                *)
(* firestore_get_docs                                                      *)
(***************************************************************************)

OpComponents == {"firestore_delete_doc", "firestore_get_docs"}

\* The Context values of the request messages.
Contexts == {"c1", "c2", "c3"}

\* The documents a query's iterator yields before Done or an error.
MaxDocs == 2

\* Where a Handle call fails: firebase.NewApp, app.Firestore, the operation
\* itself (Delete; iter.Next after some documents), or nowhere.
Failures == {"app", "firestore", "operation", "none"}

\* An output message: Response (context, results) or Error (context, error);
\* the zero Context is "".
OpMessage(port, context, error, results) ==
  [port |-> port, context |-> context, error |-> error, results |-> results]

NoCall ==
  [handled |-> FALSE, component |-> "", context |-> "", failure |-> "none",
   emitted |-> << >>, returned |-> NoReturn]

\* Instance() of both components.
NoOperation ==
  /\ opSettings = [c \in OpComponents |-> FALSE]
  /\ opCall = NoCall

\* Handle on the settings port: g.settings = in
OpHandleSettings(c, in) ==
  /\ opSettings' = [opSettings EXCEPT ![c] = in]
  /\ UNCHANGED opCall
  /\ UNCHANGED << cacheVars, schemaVars, clientVars, dirVars, listenVars, concVars >>

\* The record of a call that failed with err: the error goes to the error
\* port, with the Context the code puts in the Error, when the port is
\* enabled, and is returned when it is not.
OpFail(c, req, failure, context) ==
  IF opSettings[c]
    THEN [handled |-> TRUE, component |-> c, context |-> req.context, failure |-> failure,
          emitted |-> << OpMessage("error", context, failure, 0) >>,
          returned |-> ReturnHandler]
    ELSE [handled |-> TRUE, component |-> c, context |-> req.context, failure |-> failure,
          emitted |-> << >>, returned |-> ReturnError(<< failure >>)]

\* firestore_delete_doc, Handle on the request port.  The Error of a
\* NewApp failure carries req.Context; the Errors of the Firestore and
\* Delete failures are built without a Context.
DeleteDocHandle(req, failure) ==
  /\ opCall' =
       IF failure = "app" THEN OpFail("firestore_delete_doc", req, failure, req.context)
       ELSE IF failure \in {"firestore", "operation"}
         THEN OpFail("firestore_delete_doc", req, failure, "")
       ELSE [handled |-> TRUE, component |-> "firestore_delete_doc",
             context |-> req.context, failure |-> "none",
             emitted |-> << OpMessage("response", req.context, "", 0) >>,
             returned |-> ReturnHandler]
  /\ UNCHANGED opSettings
  /\ UNCHANGED << cacheVars, schemaVars, clientVars, dirVars, listenVars, concVars >>

\* firestore_get_docs, Handle on the request port, the iterator yielding docs
\* documents.  The NewApp and Firestore failures go through the error-port
\* check; an iter.Next error is returned as it is.
GetDocsHandle(req, failure, docs) ==
  /\ opCall' =
       IF failure \in {"app", "firestore"}
         THEN OpFail("firestore_get_docs", req, failure, req.context)
       ELSE IF failure = "operation"
         THEN [handled |-> TRUE, component |-> "firestore_get_docs",
               context |-> req.context, failure |-> failure,
               emitted |-> << >>, returned |-> ReturnError(<< failure >>)]
       ELSE [handled |-> TRUE, component |-> "firestore_get_docs",
             context |-> req.context, failure |-> "none",
             emitted |-> << OpMessage("response", req.context, "", docs) >>,
             returned |-> ReturnHandler]
  /\ UNCHANGED opSettings
  /\ UNCHANGED << cacheVars, schemaVars, clientVars, dirVars, listenVars, concVars >>

OpRequests == [context : Contexts]

NextOperation ==
  \/ \E c \in OpComponents, in \in BOOLEAN : OpHandleSettings(c, in)
  \/ \E req \in OpRequests, f \in Failures : DeleteDocHandle(req, f)
  \/ \E req \in OpRequests, f \in Failures, docs \in 0..MaxDocs : GetDocsHandle(req, f, docs)

(***************************************************************************)
(* The firestore_listen_collection component                               *)
(***************************************************************************)

\* The goroutines in which the runtime calls Handle.
Callers == {"g1", "g2"}
NoOne == "none"

\* The messages: Settings on the settings port, Start on the start port,
\* StartControl, StopControl or nil on the control port, Stop on the stop
\* port.
LNoMessage ==
  [port |-> "", kind |-> "", context |-> "",
   settings |-> [enableErrorPort |-> FALSE, enableStopPort |-> FALSE]]

LMessages ==
  { [LNoMessage EXCEPT !.port = "_settings", !.settings = s] :
      s \in [enableErrorPort : BOOLEAN, enableStopPort : BOOLEAN] }
    \cup { [LNoMessage EXCEPT !.port = "start", !.context = c] : c \in {"c1", "c2"} }
    \cup { [LNoMessage EXCEPT !.port = "_control", !.kind = k] :
             k \in {"StartControl", "StopControl", "nil"} }
    \cup { [LNoMessage EXCEPT !.port = "stop"] }

\* What a start call is about to return once its deferred calls have run.
LNoReturn == [kind |-> "none", err |-> ""]
LPending(kind, err) == [kind |-> kind, err |-> err]

\* The value a Handle call returned.
LNoResult == [kind |-> "none", err |-> ""]
LReturn(kind, err) == [kind |-> kind, err |-> err]

\* A message given to the handler: its port and its Context.
LNoEmission == [port |-> "", context |-> ""]

\* Instance()
NoListener ==
  /\ lsSettings = [enableErrorPort |-> FALSE, enableStopPort |-> FALSE]
  /\ startSettings = ""
  /\ cancelFunc = NoOne
  /\ runLock = NoOne
  /\ lpc = [g \in Callers |-> "idle"]
  /\ lmsg = [g \in Callers |-> LNoMessage]
  /\ cancelled = [g \in Callers |-> FALSE]
  /\ lreturned = [g \in Callers |-> LNoReturn]
  /\ lresult = LNoResult
  /\ lemitted = LNoEmission

\* Ports(): the stop port is there when EnableStopPort is set.
PortNames ==
  {"_settings", "start", "_control", "response"}
    \cup (IF lsSettings.enableStopPort THEN {"stop"} ELSE {})
    \cup (IF lsSettings.enableErrorPort THEN {"error"} ELSE {})

\* g.getControl(): isListening
Status == IF cancelFunc # NoOne THEN "Listening" ELSE "Not listening"

\* The runtime calls Handle(ctx, handler, port, msg) in goroutine g, on a port
\* the component has: the switch on the port.  There are cases for the
\* settings, the control and the start port; any other port, and a nil
\* control message, ends in "invalid port".
LHandle(g, msg) ==
  /\ lpc[g] = "idle"
  /\ msg.port \in PortNames
  /\ IF msg.port = "_settings"
       THEN /\ lsSettings' = msg.settings
            /\ lresult' = LReturn("nil", "")
            /\ UNCHANGED << startSettings, lpc, lmsg >>
     ELSE IF msg.port = "_control" /\ msg.kind = "StartControl"
       THEN /\ lpc' = [lpc EXCEPT ![g] = "s_lock"]
            /\ lmsg' = [lmsg EXCEPT ![g] = msg]
            /\ UNCHANGED << lsSettings, startSettings, lresult >>
     ELSE IF msg.port = "_control" /\ msg.kind = "StopControl"
       THEN /\ lpc' = [lpc EXCEPT ![g] = "stop"]
            /\ lmsg' = [lmsg EXCEPT ![g] = msg]
            /\ UNCHANGED << lsSettings, startSettings, lresult >>
     ELSE IF msg.port = "start"
       THEN /\ startSettings' = msg.context
            /\ lpc' = [lpc EXCEPT ![g] = "s_lock"]
            /\ lmsg' = [lmsg EXCEPT ![g] = msg]
            /\ UNCHANGED << lsSettings, lresult >>
     ELSE /\ lresult' = LReturn("error", "invalid port")
          /\ UNCHANGED << lsSettings, startSettings, lpc, lmsg >>
  /\ UNCHANGED << cancelFunc, runLock, cancelled, lreturned, lemitted >>
  /\ UNCHANGED << cacheVars, schemaVars, clientVars, dirVars, opVars, concVars >>

\* start: g.runLock.Lock(); listenCtx, listenCancel := context.WithCancel(ctx)
LRunLockNotExclusive(g) ==
  /\ lpc[g] = "s_lock"
  /\ runLock' = g
  /\ cancelled' = [cancelled EXCEPT ![g] = FALSE]
  /\ lpc' = [lpc EXCEPT ![g] = "s_set"]
  /\ UNCHANGED << lsSettings, startSettings, cancelFunc, lmsg, lreturned, lresult, lemitted >>
  /\ UNCHANGED << cacheVars, schemaVars, clientVars, dirVars, opVars, concVars >>
LRunLock(g) ==
  /\ lpc[g] = "s_lock"
  /\ runLock = NoOne
  /\ runLock' = g
  /\ cancelled' = [cancelled EXCEPT ![g] = FALSE]
  /\ lpc' = [lpc EXCEPT ![g] = "s_set"]
  /\ UNCHANGED << lsSettings, startSettings, cancelFunc, lmsg, lreturned, lresult, lemitted >>
  /\ UNCHANGED << cacheVars, schemaVars, clientVars, dirVars, opVars, concVars >>

\* start: g.setCancelFunc(listenCancel), and the reconcile call
LSetCancelFunc(g) ==
  /\ lpc[g] = "s_set"
  /\ cancelFunc' = g
  /\ lpc' = [lpc EXCEPT ![g] = "s_app"]
  /\ UNCHANGED << lsSettings, startSettings, runLock, lmsg, cancelled, lreturned, lresult,
                  lemitted >>
  /\ UNCHANGED << cacheVars, schemaVars, clientVars, dirVars, opVars, concVars >>

\* start: firebase.NewApp and app.Firestore.  A failure goes to the error
\* port with g.startSettings.Context when the port is enabled, else it is
\* returned; then the deferred calls run.
LConnect(g, failure) ==
  /\ lpc[g] = "s_app"
  /\ IF failure = "none"
       THEN /\ lpc' = [lpc EXCEPT ![g] = "s_loop"]
            /\ UNCHANGED << lreturned, lemitted >>
     ELSE IF lsSettings.enableErrorPort
       THEN /\ lemitted' = [port |-> "error", context |-> startSettings]
            /\ lreturned' = [lreturned EXCEPT ![g] = LPending("handler", "")]
            /\ lpc' = [lpc EXCEPT ![g] = "s_defer"]
     ELSE /\ lreturned' = [lreturned EXCEPT ![g] = LPending("error", failure)]
          /\ lpc' = [lpc EXCEPT ![g] = "s_defer"]
          /\ UNCHANGED lemitted
  /\ UNCHANGED << lsSettings, startSettings, cancelFunc, runLock, lmsg, cancelled, lresult >>
  /\ UNCHANGED << cacheVars, schemaVars, clientVars, dirVars, opVars, concVars >>

\* start: one turn of the loop on iter.Next().  With listenCtx cancelled, or
\* on DeadlineExceeded, the loop returns nil; another error is returned; a
\* snapshot's change goes to the response port with g.startSettings.Context.
LNext(g, outcome) ==
  /\ lpc[g] = "s_loop"
  /\ IF cancelled[g] \/ outcome = "deadline"
       THEN /\ lreturned' = [lreturned EXCEPT ![g] = LPending("nil", "")]
            /\ lpc' = [lpc EXCEPT ![g] = "s_defer"]
            /\ UNCHANGED lemitted
     ELSE IF outcome = "error"
       THEN /\ lreturned' = [lreturned EXCEPT ![g] = LPending("error", "snapshots next")]
            /\ lpc' = [lpc EXCEPT ![g] = "s_defer"]
            /\ UNCHANGED lemitted
     ELSE /\ lemitted' = [port |-> "response", context |-> startSettings]
          /\ UNCHANGED << lreturned, lpc >>
  /\ UNCHANGED << lsSettings, startSettings, cancelFunc, runLock, lmsg, cancelled, lresult >>
  /\ UNCHANGED << cacheVars, schemaVars, clientVars, dirVars, opVars, concVars >>

\* start, deferred: g.setCancelFunc(nil), and the reconcile call
LDeferClear(g) ==
  /\ lpc[g] = "s_defer"
  /\ cancelFunc' = NoOne
  /\ lpc' = [lpc EXCEPT ![g] = "s_unlock"]
  /\ UNCHANGED << lsSettings, startSettings, runLock, lmsg, cancelled, lreturned, lresult,
                  lemitted >>
  /\ UNCHANGED << cacheVars, schemaVars, clientVars, dirVars, opVars, concVars >>

\* start, deferred: listenCancel(), g.runLock.Unlock(), and the return
LDeferUnlock(g) ==
  /\ lpc[g] = "s_unlock"
  /\ cancelled' = [cancelled EXCEPT ![g] = TRUE]
  /\ runLock' = NoOne
  /\ lresult' = LReturn(lreturned[g].kind, lreturned[g].err)
  /\ lreturned' = [lreturned EXCEPT ![g] = LNoReturn]
  /\ lmsg' = [lmsg EXCEPT ![g] = LNoMessage]
  /\ lpc' = [lpc EXCEPT ![g] = "idle"]
  /\ UNCHANGED << lsSettings, startSettings, cancelFunc, lemitted >>
  /\ UNCHANGED << cacheVars, schemaVars, clientVars, dirVars, opVars, concVars >>

\* stop(), under g.cancelFuncLock: g.cancelFunc() when it is not nil
LStop(g) ==
  /\ lpc[g] = "stop"
  /\ cancelled' = IF cancelFunc # NoOne THEN [cancelled EXCEPT ![cancelFunc] = TRUE]
                  ELSE cancelled
  /\ lresult' = LReturn("nil", "")
  /\ lmsg' = [lmsg EXCEPT ![g] = LNoMessage]
  /\ lpc' = [lpc EXCEPT ![g] = "idle"]
  /\ UNCHANGED << lsSettings, startSettings, cancelFunc, runLock, lreturned, lemitted >>
  /\ UNCHANGED << cacheVars, schemaVars, clientVars, dirVars, opVars, concVars >>

NextListen ==
  \E g \in Callers :
    \/ \E msg \in LMessages : LHandle(g, msg)
    \/ LRunLock(g)
    \/ LSetCancelFunc(g)
    \/ \E f \in {"none", "app", "firestore"} : LConnect(g, f)
    \/ \E o \in {"change", "error", "deadline"} : LNext(g, o)
    \/ LDeferClear(g)
    \/ LDeferUnlock(g)
    \/ LStop(g)

(***************************************************************************)
(* The component and its discovery client, called concurrently: goroutines *)
(* run Handle (settings and request port) and Ports on the one component   *)
(* and GetServices, GetAPI, GetMethods and ClearCache on its client.  A    *)
(* handler's discovery call runs as the steps of Part I in its goroutine.  *)
(***************************************************************************)

\* service, method and enableErrorPort of the settings, as handleRequest
\* copies them.
Triple(st) ==
  [service |-> st.service, method |-> st.method, enableErrorPort |-> st.enableErrorPort]

NoTriple == [service |-> "", method |-> "", enableErrorPort |-> FALSE]

\* Instance(), no call made.
NoCaller ==
  /\ settingsLock = NoWriter
  /\ hpc = [p \in Procs |-> "none"]
  /\ hin = [p \in Procs |-> NoTriple]
  /\ hold = [p \in Procs |-> NoTriple]
  /\ completed = NoTriple
  /\ calls = 0

\* The Settings messages of the concurrent callers.
Selections ==
  { [service |-> "sheets:v4", method |-> "spreadsheets.values.get", enableErrorPort |-> TRUE],
    [service |-> "sheets:v3", method |-> "worksheets.list", enableErrorPort |-> FALSE] }

\* A handler in goroutine p calls the client: the call's first position.
Enter(p, o, s, first) ==
  /\ pc' = [pc EXCEPT ![p] = first]
  /\ op' = [op EXCEPT ![p] = o]
  /\ arg' = [arg EXCEPT ![p] = s]
  /\ dlRes' = [dlRes EXCEPT ![p] = NoDL]
  /\ result' = [result EXCEPT ![p] = NoResult]
  /\ net' = [net EXCEPT ![p] = {}]
  /\ afterOk' = [afterOk EXCEPT ![p] = FALSE]
  /\ catFresh' = [catFresh EXCEPT ![p] = FALSE]
  /\ UNCHANGED << now, discoveryListCache, discoveryListCacheTime, dlWriter, apiCache,
                  api, everOk, okStores, beforeClear >>

\* The calls of one run.
MaxCalls == 3

\* A goroutine that is in no call, while the run has calls left.
Free(p) == hpc[p] = "none" /\ pc[p] = "idle" /\ calls < MaxCalls

\* handleSettings: c.settingsLock.Lock(), and discoverServices when no
\* service is loaded.
HS_Lock(p, in) ==
  /\ Free(p)
  /\ settingsLock = NoWriter
  /\ settingsLock' = p
  /\ hin' = [hin EXCEPT ![p] = in]
  /\ IF Len(servicesAvailable) = 0
       THEN /\ Enter(p, "GetServices", "sheets:v4", "dl_read")
            /\ hpc' = [hpc EXCEPT ![p] = "hs_services"]
       ELSE /\ hpc' = [hpc EXCEPT ![p] = "hs_select"]
            /\ UNCHANGED cacheVars
  /\ UNCHANGED << hold, completed >>
  /\ calls' = calls + 1
  /\ UNCHANGED << schemaVars, clientVars, dirVars, opVars, listenVars >>

\* handleSettings: GetPreferredServices has returned; on success the ids and
\* titles of the preferred services replace the lists.
HS_Services(p) ==
  /\ hpc[p] = "hs_services" /\ pc[p] = "idle"
  /\ IF result[p].st = "ok"
       THEN \E sv \in ServicesOf(Catalogs[result[p].val]) :
              LET pref == PreferredOf(sv)
              IN /\ servicesAvailable' = [i \in 1..Len(pref) |-> pref[i].id]
                 /\ servicesLabels' = [i \in 1..Len(pref) |-> pref[i].title]
       ELSE UNCHANGED << servicesAvailable, servicesLabels >>
  /\ hpc' = [hpc EXCEPT ![p] = "hs_select"]
  /\ UNCHANGED << settings, methodsAvailable, methodsLabels, currentMethod, exec, emitted,
                  returned, event, ports >>
  /\ UNCHANGED << settingsLock, hin, hold, completed, calls >>
  /\ UNCHANGED << cacheVars, schemaVars, dirVars, opVars, listenVars >>

\* handleSettings: the service selection is assigned; the method lists are
\* cleared and, for a service, discovered again when the service changed or
\* none is loaded.
HS_Select(p) ==
  /\ hpc[p] = "hs_select"
  /\ hold' = [hold EXCEPT ![p] = [NoTriple EXCEPT !.service = settings.service]]
  /\ settings' = [settings EXCEPT !.service = hin[p].service]
  /\ IF hin[p].service = ""
       THEN /\ methodsAvailable' = NoServiceMethods(methodsAvailable)
            /\ methodsLabels' = NoServiceMethods(methodsLabels)
            /\ hpc' = [hpc EXCEPT ![p] = "hs_method"]
            /\ UNCHANGED cacheVars
     ELSE IF Rediscover(settings.service # hin[p].service, methodsAvailable)
       THEN /\ methodsAvailable' = << >>
            /\ methodsLabels' = << >>
            /\ Enter(p, "GetMethods", hin[p].service, "api_read")
            /\ hpc' = [hpc EXCEPT ![p] = "hs_methods"]
     ELSE /\ hpc' = [hpc EXCEPT ![p] = "hs_method"]
          /\ UNCHANGED << methodsAvailable, methodsLabels >>
          /\ UNCHANGED cacheVars
  /\ UNCHANGED << servicesAvailable, servicesLabels, currentMethod, exec, emitted,
                  returned, event, ports >>
  /\ UNCHANGED << settingsLock, hin, completed, calls >>
  /\ UNCHANGED << schemaVars, dirVars, opVars, listenVars >>

\* handleSettings: GetMethods has returned; on success the full names and
\* labels of the methods replace the lists.
HS_Methods(p) ==
  /\ hpc[p] = "hs_methods" /\ pc[p] = "idle"
  /\ IF result[p].st = "ok"
       THEN LET methods == MethodsOf(Specification(arg[p], result[p].val))
            IN /\ methodsAvailable' = [i \in 1..Len(methods) |-> methods[i].fullName]
               /\ methodsLabels' = [i \in 1..Len(methods) |-> MethodLabel(methods[i])]
       ELSE UNCHANGED << methodsAvailable, methodsLabels >>
  /\ hpc' = [hpc EXCEPT ![p] = "hs_method"]
  /\ UNCHANGED << settings, servicesAvailable, servicesLabels, currentMethod, exec,
                  emitted, returned, event, ports >>
  /\ UNCHANGED << settingsLock, hin, hold, completed, calls >>
  /\ UNCHANGED << cacheVars, schemaVars, dirVars, opVars, listenVars >>

\* handleSettings: the method selection and the error-port flag are
\* assigned; buildSchemas is called for a service with a method to use.
HS_Method(p) ==
  /\ hpc[p] = "hs_method"
  /\ LET old == hold[p].service
         changed == old # hin[p].service
         method == IF ResetMethod(changed, old) THEN "" ELSE hin[p].method
         methodToUse == IF method = "" THEN hin[p].method ELSE method
     IN /\ settings' = [settings EXCEPT !.method = method,
                                        !.enableErrorPort = hin[p].enableErrorPort]
        /\ IF hin[p].service # "" /\ methodToUse # ""
             THEN /\ Enter(p, "GetAPI", hin[p].service, "api_read")
                  /\ hold' = [hold EXCEPT ![p].method = methodToUse]
                  /\ hpc' = [hpc EXCEPT ![p] = "hs_schemas"]
             ELSE /\ hpc' = [hpc EXCEPT ![p] = "hs_unlock"]
                  /\ UNCHANGED hold
                  /\ UNCHANGED cacheVars
  /\ UNCHANGED << servicesAvailable, servicesLabels, methodsAvailable, methodsLabels,
                  currentMethod, exec, emitted, returned, event, ports >>
  /\ UNCHANGED << settingsLock, hin, completed, calls >>
  /\ UNCHANGED << schemaVars, dirVars, opVars, listenVars >>

\* handleSettings: the GetAPI of buildSchemas has returned; for a method of
\* that name a new converter builds the schemas, which are stored with
\* currentMethod.
HS_Schemas(p) ==
  /\ hpc[p] = "hs_schemas" /\ pc[p] = "idle"
  /\ LET found == IF result[p].st = "ok"
                    THEN { x \in GetAllMethods(Specification(arg[p], result[p].val)) :
                             x.fullName = hold[p].method }
                    ELSE {}
         schemas == Specification(arg[p], result[p].val).schemas
     IN IF found = {}
          THEN UNCHANGED << requestSchema, responseSchema, currentMethod >>
          ELSE \E x \in found :
               \E q \in BuildRequestSchema(schemas, x.method, {}) :
               \E r \in BuildResponseSchema(schemas, x.method, q.visited) :
                 /\ requestSchema' = Stored(TRUE, [schema |-> q.schema, data |-> q.data],
                                            requestSchema)
                 /\ responseSchema' = Stored(TRUE, [schema |-> r.schema, data |-> r.data],
                                             responseSchema)
                 /\ currentMethod' = hold[p].method
  /\ hpc' = [hpc EXCEPT ![p] = "hs_unlock"]
  /\ UNCHANGED << settings, servicesAvailable, servicesLabels, methodsAvailable,
                  methodsLabels, exec, emitted, returned, event, ports >>
  /\ UNCHANGED << scSchemas, scMethod, visited, prevRequestSchema, prevResponseSchema,
                  pass, lastOp >>
  /\ UNCHANGED << settingsLock, hin, hold, completed, calls >>
  /\ UNCHANGED << cacheVars, dirVars, opVars, listenVars >>

\* handleSettings: return nil, and the deferred c.settingsLock.Unlock().
HS_UnlockHeld(p) ==
  /\ hpc[p] = "hs_unlock"
  /\ completed' = Triple(settings)
  /\ hpc' = [hpc EXCEPT ![p] = "none"]
  /\ hin' = [hin EXCEPT ![p] = NoTriple]
  /\ hold' = [hold EXCEPT ![p] = NoTriple]
  /\ UNCHANGED << settingsLock, calls >>
  /\ UNCHANGED << cacheVars, schemaVars, clientVars, dirVars, opVars, listenVars >>
HS_Unlock(p) ==
  /\ hpc[p] = "hs_unlock"
  /\ settingsLock' = NoWriter
  /\ completed' = Triple(settings)
  /\ hpc' = [hpc EXCEPT ![p] = "none"]
  /\ hin' = [hin EXCEPT ![p] = NoTriple]
  /\ hold' = [hold EXCEPT ![p] = NoTriple]
  /\ UNCHANGED calls
  /\ UNCHANGED << cacheVars, schemaVars, clientVars, dirVars, opVars, listenVars >>

\* c.settingsLock.RLock(): no goroutine holds the lock for writing.
\* (RLockedAlways: the fields read with no lock taken.)
RLockedAlways == TRUE
RLocked == settingsLock = NoWriter

\* handleRequest: under c.settingsLock.RLock the service, the method and the
\* error-port flag are copied; with one of the first two empty the call
\* ends, else executeRequest calls GetAPI.
HR_Read(p) ==
  /\ Free(p)
  /\ RLocked
  /\ IF Unselected(settings.service, settings.method)
       THEN /\ UNCHANGED << hpc, hold >>
            /\ UNCHANGED cacheVars
       ELSE /\ hold' = [hold EXCEPT ![p] = Triple(settings)]
            /\ Enter(p, "GetAPI", settings.service, "api_read")
            /\ hpc' = [hpc EXCEPT ![p] = "hr_exec"]
  /\ calls' = calls + 1
  /\ UNCHANGED << settingsLock, hin, completed >>
  /\ UNCHANGED << schemaVars, clientVars, dirVars, opVars, listenVars >>

\* handleRequest: the GetAPI of executeRequest has returned; the request is
\* made, if any, and its outcome goes to the handler or is returned.
HR_Exec(p) ==
  /\ hpc[p] = "hr_exec" /\ pc[p] = "idle"
  /\ hpc' = [hpc EXCEPT ![p] = "none"]
  /\ hold' = [hold EXCEPT ![p] = NoTriple]
  /\ UNCHANGED << settingsLock, hin, completed, calls >>
  /\ UNCHANGED << cacheVars, schemaVars, clientVars, dirVars, opVars, listenVars >>

\* Ports(), under c.settingsLock.RLock from its first statement to its return.
HPorts(p) ==
  /\ Free(p)
  /\ RLocked
  /\ ports' = PortList
  /\ returned' = ReturnPorts
  /\ calls' = calls + 1
  /\ UNCHANGED << settings, servicesAvailable, servicesLabels, methodsAvailable,
                  methodsLabels, currentMethod, exec, emitted, event >>
  /\ UNCHANGED << settingsLock, hpc, hin, hold, completed >>
  /\ UNCHANGED << cacheVars, schemaVars, dirVars, opVars, listenVars >>

\* The steps of the calls in progress: those of the client and those of the
\* handlers.
ClientStep(p) ==
  \/ DL_Read(p) \/ DL_Lock(p) \/ DL_WCheck(p) \/ DL_FetchFail(p) \/ DL_FetchOk(p)
  \/ API_Read(p) \/ API_FetchFail(p) \/ API_FetchOk(p) \/ API_Store(p)
  \/ CC_Clear1(p) \/ CC_Clear2(p)

HandlerStep(p) ==
  \/ HS_Services(p) \/ HS_Select(p) \/ HS_Methods(p) \/ HS_Method(p)
  \/ HS_Schemas(p) \/ HS_Unlock(p) \/ HR_Exec(p)

\* A goroutine in no call calls the client: GetServices, GetAPI, GetMethods
\* (GetAPI, then the methods sorted) or ClearCache.
Call(p) ==
  /\ Free(p)
  /\ \/ Enter(p, "GetServices", "sheets:v4", "dl_read")
     \/ Enter(p, "GetAPI", "sheets:v4", "api_read")
     \/ Enter(p, "GetMethods", "sheets:v3", "api_read")
     \/ Enter(p, "ClearCache", "sheets:v4", "cc_clear1")
  /\ calls' = calls + 1
  /\ UNCHANGED << settingsLock, hpc, hin, hold, completed >>
  /\ UNCHANGED << schemaVars, clientVars, dirVars, opVars, listenVars >>

NextConcurrent ==
  \/ TakeResult
  \/ \E p \in Procs :
       \/ Call(p)
       \/ \E in \in Selections : HS_Lock(p, in)
       \/ HR_Read(p)
       \/ HPorts(p)
       \/ ClientStep(p)
       \/ HandlerStep(p)

\* The parts a specification leaves out, each in its initial state.
NoAddition == NoDirectory /\ NoOperation /\ NoListener /\ NoCaller

NextSchema == CallBuildRequestSchema \/ CallBuildResponseSchema

\* The caches as constructed, and a converter made for a method.
InitSchema == InitCache /\ NewSchemaConverter /\ Instance /\ NoAddition

SpecSchema == InitSchema /\ [][NextSchema]_vars

NextCache ==
  \/ Tick
  \/ \E p \in Procs :
       \/ CallGetServices(p)
       \/ CallGetAPI(p)
       \/ CallClearCache(p)
       \/ DL_Read(p)
       \/ DL_Lock(p)
       \/ DL_WCheck(p)
       \/ DL_FetchFail(p)
       \/ DL_FetchOk(p)
       \/ API_Read(p)
       \/ API_FetchFail(p)
       \/ API_FetchOk(p)
       \/ API_Store(p)
       \/ CC_Clear1(p)
       \/ CC_Clear2(p)

\* The caches as constructed, and no converter.
Init == InitCache /\ NoSchemaConverter /\ Instance /\ NoAddition

SpecCache == Init /\ [][NextCache]_vars

\* One component and its client, called from the goroutines of Procs.
SpecConcurrent == Init /\ [][NextConcurrent]_vars

NextRequest == TakeResult \/ Ports \/ \E in \in Requests : HandleRequest(in)

\* The caches as constructed, no converter, and a selection made.
InitRequest == InitCache /\ NoSchemaConverter /\ Selected /\ NoAddition

SpecRequest == InitRequest /\ [][NextRequest]_vars

\* The request messages without parameter values.
BareRequests == { r \in Requests : DOMAIN r.data = {} }

\* One component instance taking settings, request and Ports calls in turn.
NextClient ==
  \/ TakeResult
  \/ Ports
  \/ \E in \in SettingsMessages : HandleSettings(in)
  \/ \E in \in BareRequests : HandleRequest(in)

SpecClient == Init /\ [][NextClient]_vars

NextListing == CallServicesOf \/ CallPreferredOf \/ CallGetAllMethods \/ CallMethodsOf

InitListing ==
  InitCache /\ NoSchemaConverter /\ Instance /\ Decoded /\ NoOperation /\ NoListener
    /\ NoCaller

InitPlain == InitCache /\ NoSchemaConverter /\ Instance /\ NoAddition

SpecOperation == InitPlain /\ [][NextOperation]_vars

SpecListen == InitPlain /\ [][NextListen]_vars

SpecListing == InitListing /\ [][NextListing]_vars

NextSettings == Tick \/ TakeResult \/ Ports \/ \E in \in SettingsMessages : HandleSettings(in)

SpecSettings == Init /\ [][NextSettings]_vars

(***************************************************************************)
(* Claims about the catalog cache and the spec cache (SpecCache).          *)
(***************************************************************************)

\* The cached directory is present and younger than the TTL.
Fresh == discoveryListCache # 0 /\ now - discoveryListCacheTime < cacheTTL

\* The goroutines whose catalog request is on the wire.
Fetching == { p \in Procs : pc[p] = "dl_resp" }

\* This step is ClearCache emptying apiCache.
ClearStep == \E p \in Procs : pc[p] = "cc_clear2" /\ pc'[p] = "idle"

\* The GetAPI calls for s that missed the cache and have not returned yet.
Missing(s) ==
  { p \in Procs : /\ op[p] = "GetAPI" /\ arg[p] = s
                  /\ pc[p] \in {"dl_read", "dl_wlock", "dl_wcheck", "dl_resp",
                                "api_resp", "api_store"} }

\* C1: concurrent getDiscoveryList callers that find the cache empty or expired
\* issue one fetch per TTL window: a catalog request is on the wire only while
\* no fresh snapshot is cached, at most one is on the wire at a time, two
\* successful refreshes with no ClearCache between them are at least a TTL
\* apart, and a caller that returned a snapshot without fetching (it found the
\* cache valid, under the read lock or in the re-check under the write lock)
\* returned the snapshot cached at that moment, younger than the TTL.
C1_OneFetchPerWindow ==
  /\ \A p \in Fetching : ~Fresh /\ dlWriter = p
  /\ Cardinality(Fetching) <= 1
  /\ \A i \in 1..(Len(okStores) - 1) : okStores[i + 1] - okStores[i] >= cacheTTL
  /\ \A p \in Procs :
       (dlRes[p].st = "ok" /\ "catalog" \notin net[p]) =>
         dlRes[p].age < cacheTTL

\* C1 witness: one caller fetched and returned; the other, which had found the
\* cache empty, holds the write lock and is about to re-check a fresh cache.
C1_Witness ==
  \E p, q \in Procs :
    /\ p # q
    /\ pc[p] = "idle" /\ op[p] = "GetServices" /\ result[p].st = "ok"
    /\ net[p] = {"catalog"}
    /\ pc[q] = "dl_wcheck" /\ op[q] = "GetServices" /\ net[q] = {}
    /\ Fresh /\ okStores = << discoveryListCacheTime >>

\* C2: a getDiscoveryList check that finds a snapshot younger than the TTL
\* returns that snapshot, sends no request and leaves the cache and its
\* timestamp as they are.
C2_ValidCacheServed ==
  [][ \A p \in Procs :
        (pc[p] \in {"dl_read", "dl_wcheck"} /\ pc'[p] # pc[p] /\ Fresh) =>
          /\ dlRes'[p] = OkDL(discoveryListCache, now - discoveryListCacheTime)
          /\ pc'[p] \notin {"dl_wlock", "dl_resp"}
          /\ ("catalog" \in net'[p]) = ("catalog" \in net[p])
          /\ op[p] = "GetServices" => result'[p] = OkResult(discoveryListCache)
          /\ discoveryListCache' = discoveryListCache
          /\ discoveryListCacheTime' = discoveryListCacheTime
          /\ okStores' = okStores ]_vars

\* C2 witness: GetServices returned the cached snapshot, one time unit old,
\* without a request.
C2_Witness ==
  \E p \in Procs :
    /\ pc[p] = "idle" /\ op[p] = "GetServices" /\ net[p] = {}
    /\ dlRes[p] = OkDL(discoveryListCache, 1)
    /\ result[p] = OkResult(discoveryListCache)
    /\ now - discoveryListCacheTime = 1

\* C3: no caller is handed a snapshot of age >= TTL; a refresh that fails
\* returns the error of the fetch, not the stale snapshot, and leaves the
\* cached snapshot and its timestamp as they were.
C3_NoStaleFallback ==
  /\ [](\A p \in Procs : dlRes[p].st = "ok" => dlRes[p].age < cacheTTL)
  /\ [][ \A p \in Procs :
           (pc[p] = "dl_resp" /\ pc'[p] # "dl_resp" /\ okStores' = okStores) =>
             /\ dlRes'[p] = ErrDL
             /\ pc'[p] = "idle"
             /\ result'[p].st = "err" /\ result'[p].err \in FetchErrors
             /\ discoveryListCache' = discoveryListCache
             /\ discoveryListCacheTime' = discoveryListCacheTime ]_vars

\* C3 witness: a refresh failed while an expired snapshot was cached; the
\* caller has the error and the expired snapshot is still in the cache.
C3_Witness ==
  \E p \in Procs :
    /\ pc[p] = "idle" /\ op[p] = "GetServices" /\ net[p] = {"catalog"}
    /\ result[p].st = "err" /\ dlRes[p] = ErrDL
    /\ discoveryListCache # 0 /\ now - discoveryListCacheTime >= cacheTTL
    /\ \A q \in Procs : pc[q] = "idle"

\* C4 (as claimed): once a specification is cached for an id, the value under
\* that id changes only when ClearCache empties the cache.
C4_FirstFetchWins ==
  [][ \A s \in ServiceIDs :
        (apiCache[s] # 0 /\ apiCache'[s] # apiCache[s]) =>
          (ClearStep /\ apiCache'[s] = 0) ]_vars

\* C5: a successful GetAPI leaves a specification in the cache until the next
\* ClearCache, and once no miss for the id is in flight the cache has
\* converged: the entry stays as it is, no new miss arises, and every GetAPI
\* for the id returns that entry without a request.
C5_Convergence ==
  /\ [](\A s \in ServiceIDs : everOk[s] => apiCache[s] \in Revisions)
  /\ [][ \A s \in ServiceIDs :
           (Missing(s) = {} /\ apiCache[s] # 0 /\ ~ClearStep) =>
             /\ Missing(s)' = {}
             /\ apiCache'[s] = apiCache[s]
             /\ \A p \in Procs :
                  (op[p] = "GetAPI" /\ arg[p] = s /\ pc[p] # "idle" /\ pc'[p] = "idle") =>
                    (result'[p] = OkResult(apiCache[s]) /\ net'[p] = {}) ]_vars

\* C5 witness: two GetAPI calls for one id both missed and both fetched (the
\* second used the catalog the first had fetched, so no ClearCache came
\* between them), they got different documents, both returned, and the cache
\* holds one of the two.
C5_Witness ==
  \E p, q \in Procs :
    /\ p # q /\ pc[p] = "idle" /\ pc[q] = "idle"
    /\ op[p] = "GetAPI" /\ op[q] = "GetAPI" /\ arg[p] = arg[q]
    /\ net[p] = {"catalog", "spec"} /\ net[q] = {"spec"}
    /\ result[p].st = "ok" /\ result[q].st = "ok"
    /\ result[p].val # result[q].val
    /\ apiCache[arg[p]] \in {result[p].val, result[q].val}
    /\ everOk[arg[p]]

\* C6: a GetAPI that begins after a GetAPI for the same id succeeded, with no
\* ClearCache since, never leaves the cache lookup: it sends no request of
\* either kind and returns a specification, whatever the clock and the state
\* of the catalog cache.
C6_HitNeedsNoNetwork ==
  \A p \in Procs :
    afterOk[p] =>
      /\ net[p] = {} /\ dlRes[p] = NoDL
      /\ \/ pc[p] = "api_read" /\ apiCache[arg[p]] \in Revisions
         \/ pc[p] = "idle" /\ result[p].st = "ok" /\ result[p].val \in Revisions

\* C6 witness: such a call returned while the catalog cache was expired.
C6_Witness ==
  \E p \in Procs :
    /\ pc[p] = "idle" /\ op[p] = "GetAPI" /\ afterOk[p]
    /\ result[p].st = "ok" /\ net[p] = {}
    /\ ~catFresh[p]
    /\ discoveryListCache # 0 /\ now - discoveryListCacheTime >= cacheTTL

\* C7: a specification request is sent only for an id found in the directory;
\* an id that is not there gives the "not found" error; and the spec cache
\* changes only when ClearCache empties it or when a GetAPI that returns
\* successfully stores the document it returns.
C7_FailureLeavesCache ==
  /\ [](\A p \in Procs :
          /\ pc[p] \in {"api_resp", "api_store"} =>
               (dlRes[p].st = "ok" /\ arg[p] \in CatalogIDs(dlRes[p].cat))
          /\ (op[p] = "GetAPI" /\ dlRes[p].st = "ok"
                /\ arg[p] \notin CatalogIDs(dlRes[p].cat)) =>
               (pc[p] = "idle" /\ result[p] = ErrResult("not found")
                  /\ "spec" \notin net[p]))
  /\ [][ \A s \in ServiceIDs :
           apiCache'[s] # apiCache[s] =>
             \/ ClearStep
             \/ \E p \in Procs :
                  /\ op[p] = "GetAPI" /\ arg[p] = s
                  /\ pc[p] # "idle" /\ pc'[p] = "idle"
                  /\ apiCache'[s] \in Revisions
                  /\ result'[p] = OkResult(apiCache'[s]) ]_vars

\* C7 witness: GetAPI for an id missing from the fetched directory returned
\* "not found" having sent only the catalog request, and the cache has no
\* entry for the id.
C7_Witness ==
  \E p \in Procs :
    /\ pc[p] = "idle" /\ op[p] = "GetAPI" /\ arg[p] = "sheets:v3"
    /\ result[p] = ErrResult("not found")
    /\ net[p] = {"catalog"}
    /\ apiCache["sheets:v3"] = 0


(***************************************************************************)
(* Claims about the schema converter (SpecSchema).                         *)
(***************************************************************************)

\* The number of nodes a schema holds inline.
RECURSIVE Size(_)
RECURSIVE SizeOf(_, _)
SizeOf(props, names) ==
  IF names = {} THEN 0
  ELSE LET n == CHOOSE x \in names : TRUE
       IN Size(props[n]) + SizeOf(props, names \ {n})
Size(g) ==
  1 + SizeOf(g.props, DOMAIN g.props)
    + (IF g.addl # << >> THEN Size(g.addl[1]) ELSE 0)
    + (IF g.items # << >> THEN Size(g.items[1]) ELSE 0)

\* The named schemas that a schema refers to, inline.
RECURSIVE Refs(_)
Refs(g) ==
  (IF g.ref # "" THEN {g.ref} ELSE {})
    \cup UNION { Refs(g.props[n]) : n \in DOMAIN g.props }
    \cup (IF g.addl # << >> THEN Refs(g.addl[1]) ELSE {})
    \cup (IF g.items # << >> THEN Refs(g.items[1]) ELSE {})

\* The levels of an output schema, the root being level 0.
RECURSIVE Height(_)
Height(js) ==
  LET below == { Height(js.props[n]) : n \in DOMAIN js.props }
                 \cup (IF js.addl # << >> THEN { Height(js.addl[1]) } ELSE {})
                 \cup (IF js.items # << >> THEN { Height(js.items[1]) } ELSE {})
  IN IF below = {} THEN 0 ELSE 1 + CHOOSE h \in below : \A k \in below : k <= h

\* Every node of js that lies more than maxDepth levels below the node the
\* conversion started at is a placeholder; js itself lies at level.
RECURSIVE BareBelow(_, _)
BareBelow(js, level) ==
  IF level > maxDepth THEN js = Placeholder
  ELSE /\ \A n \in DOMAIN js.props : BareBelow(js.props[n], level + 1)
       /\ js.addl # << >> => BareBelow(js.addl[1], level + 1)
       /\ js.items # << >> => BareBelow(js.items[1], level + 1)

\* C8: on every schema graph, the cyclic ones included, BuildRequestSchema and
\* BuildResponseSchema (and the schemaToJSONSchema calls they make) return a
\* value: each has an outcome in every state and a finished one has left an
\* object schema; in one pass each named schema is expanded through a $ref at
\* most once, and the pass makes no more schemaToJSONSchema calls than twice
\* the number of nodes the schemas hold, however the references cycle.
C8_CyclesTerminate ==
  /\ BuildRequestSchema(scSchemas, scMethod, visited) # {}
  /\ BuildResponseSchema(scSchemas, scMethod, visited) # {}
  /\ lastOp = "request" => requestSchema.schema.type = "object"
  /\ lastOp = "response" => responseSchema.schema.type = "object"
  /\ \A n \in DOMAIN pass.exp : pass.exp[n] <= 1
  /\ pass.calls <= 2 * SizeOf(scSchemas, DOMAIN scSchemas)

\* A response built from mutually referring schemas: each was expanded once
\* and a later reference to a visited one was cut.
C8_Witness ==
  /\ lastOp = "response"
  /\ scMethod.response = "A"
  /\ "B" \in Refs(scSchemas["A"]) /\ "A" \in Refs(scSchemas["B"])
  /\ pass.exp["A"] = 1 /\ pass.exp["B"] = 1
  /\ pass.cut >= 1
  /\ DOMAIN responseSchema.schema.props # {}

\* C9: for a fixed specification and method, BuildRequestSchema and
\* BuildResponseSchema produce the same schema on every invocation: a result
\* equals the result of the invocation before it.
C9_Deterministic ==
  /\ prevRequestSchema # NoDynamicSchema => requestSchema.schema = prevRequestSchema.schema
  /\ prevResponseSchema # NoDynamicSchema => responseSchema.schema = prevResponseSchema.schema

\* C10: a schemaToJSONSchema call made with a depth beyond maxDepth builds
\* nothing, so in what a conversion started at depth 0 returns (the request
\* body, whose properties become those of the request schema, and each
\* top-level property of the response schema) every node more than maxDepth
\* levels down is the bare object placeholder.
C10_DepthBound ==
  /\ pass.built <= maxDepth
  /\ BareBelow(requestSchema.schema, 0)
  /\ \A n \in DOMAIN responseSchema.schema.props :
       BareBelow(responseSchema.schema.props[n], 0)

\* A request built from an acyclic body nested deeper than maxDepth: calls
\* went beyond maxDepth, nodes were built down to maxDepth and the schema ends
\* one level further, in placeholders.
C10_Witness ==
  /\ lastOp = "request"
  /\ scMethod.request = "A"
  /\ Refs(scSchemas["A"]) = {}
  /\ pass.reached > maxDepth
  /\ pass.built = maxDepth
  /\ Height(requestSchema.schema) = maxDepth + 1

(***************************************************************************)
(* Claims about request execution (SpecRequest).                           *)
(***************************************************************************)

\* The ParameterSpec location of a key of the call on record ("" for none).
LocationOf(k) ==
  IF k \in DOMAIN exec.method.parameters THEN exec.method.parameters[k].location ELSE ""

\* C11: each key of the parameter values is routed to exactly one
\* destination: a "path" key neither to the query string nor to the body, a
\* "query" key to the query string and not to the body, and a key with no
\* ParameterSpec (or another location) never to the query string.
C11_OneDestination ==
  exec.sent.made =>
    \A k \in DOMAIN exec.data :
      /\ LocationOf(k) = "path" =>
           k \notin exec.sent.query /\ k \notin DOMAIN exec.sent.body
      /\ LocationOf(k) = "query" =>
           k \in exec.sent.query /\ k \notin DOMAIN exec.sent.body
      /\ LocationOf(k) \notin {"path", "query"} => k \notin exec.sent.query

\* C12: a completed call whose status is outside 200-299 is reported as an
\* error (returned, or on the error port) and never as a Response on the
\* response port.
C12_NonSuccessIsError ==
  (exec.reply.kind = "response" /\ exec.reply.status \notin 200..299) =>
    /\ \A i \in 1..Len(emitted) : emitted[i].port # "response"
    /\ returned.kind = "error" \/ \E i \in 1..Len(emitted) : emitted[i].port = "error"

\* C13: with the error port enabled, a completed call with status 404 and
\* body {"error":"not found"} is published as an Error whose Code is 404,
\* unlike the Error of a transport failure.
C13_StatusCodeCarried ==
  (/\ settings.enableErrorPort
   /\ exec.reply = [kind |-> "response", status |-> 404, raw |-> "{\"error\":\"not found\"}"]) =>
    /\ Len(emitted) = 1
    /\ emitted[1].port = "error"
    /\ emitted[1].msg.code = 404

\* C18: for the template /v1/{spreadsheetId}/values/{range} with
\* spreadsheetId = "S1" and range = "A1:B2" the assembled path is
\* /v1/S1/values/A1%3AB2.
C18_ColonEscaped ==
  (/\ exec.sent.made
   /\ exec.method.path = ValuesPath /\ exec.method.flatPath = << >>
   /\ DOMAIN exec.data = {"spreadsheetId", "range"}
   /\ exec.data["spreadsheetId"] = << "S1" >>
   /\ exec.data["range"] = << "A1", ":", "B2" >>) =>
    exec.sent.path = << "/", "v1", "/", "S1", "/", "values", "/", "A1", "%3A", "B2" >>

\* The percent-encoded form of the values given for "name".
EscapedName(v) ==
  IF v = << "operations", "/", "op1" >> THEN << "operations", "%2F", "op1" >>
  ELSE IF v = << "a", " ", "b" >> THEN << "a", "%20", "b" >>
  ELSE v

Candidates == { k \in DOMAIN exec.data : LocationOf(k) \notin {"path", "query"} }

\* C20: a POST, PUT or PATCH request with no body candidate among the keys
\* carries no body, a body that is sent is never the empty object, and a
\* request of another verb carries no body whatever the keys.
C20_NoEmptyBody ==
  exec.sent.made =>
    /\ (exec.sent.verb \in {"POST", "PUT", "PATCH"} /\ Candidates = {}) => ~exec.sent.hasBody
    /\ exec.sent.hasBody => DOMAIN exec.sent.body # {}
    /\ exec.sent.verb \notin {"POST", "PUT", "PATCH"} => ~exec.sent.hasBody

\* A PUT was sent with path values only, and without a body.
C20_Witness ==
  /\ exec.sent.made
  /\ exec.sent.verb = "PUT"
  /\ DOMAIN exec.data = {"spreadsheetId", "range"}
  /\ Candidates = {}
  /\ ~exec.sent.hasBody

(***************************************************************************)
(* Claims about the selection state (SpecSettings)                         *)
(***************************************************************************)

\* The full names of the methods a service's documents declare.
MethodNames(id) ==
  UNION { { x.fullName : x \in GetAllMethods(Specification(id, rev)) } :
            rev \in Revisions }

Elems(seq) == { seq[i] : i \in 1..Len(seq) }

\* C14: after a settings event whose service differs from the stored one,
\* when the stored one was not empty the stored method selection is empty
\* and the method option list holds only methods of the new service (none
\* when their discovery failed), never one of the previous service; when the
\* stored service was empty the method selection is the incoming one.
C14_ServiceChange ==
  (event.handled /\ event.in.service # event.old.settings.service) =>
     IF event.old.settings.service # ""
       THEN /\ settings.method = ""
            /\ event.in.service # "" => Elems(methodsAvailable) \subseteq MethodNames(event.in.service)
            /\ event.in.service = "" => methodsAvailable = << >>
            /\ "methods" \notin event.ok => methodsAvailable = << >>
            /\ Elems(methodsAvailable) \cap MethodNames(event.old.settings.service) = {}
       ELSE settings.method = event.in.method

C14_Witness ==
  /\ event.handled
  /\ event.old.settings.service \in ServiceIDs
  /\ event.in.service \in ServiceIDs \ {event.old.settings.service}
  /\ event.old.methodsAvailable # << >>
  /\ event.in.method # ""
  /\ methodsAvailable # << >>
  /\ settings.method = ""

\* C15: after a settings event with the stored, non-empty service, when the
\* method list was empty the methods are fetched again and the method
\* selection is the incoming one; when the service is unchanged and the
\* method list was not empty no method discovery is made and the list is as
\* it was.
C15_SameService ==
  (event.handled /\ event.in.service = event.old.settings.service) =>
     /\ (event.in.service # "" /\ event.old.methodsAvailable = << >>) =>
          /\ "methods" \in event.tried
          /\ settings.method = event.in.method
          /\ "methods" \in event.ok =>
               Elems(methodsAvailable) \subseteq MethodNames(event.in.service)
     /\ event.old.methodsAvailable # << >> =>
          /\ "methods" \notin event.tried
          /\ methodsAvailable = event.old.methodsAvailable
          /\ methodsLabels = event.old.methodsLabels

C15_Witness ==
  /\ event.handled
  /\ event.in.service = event.old.settings.service
  /\ event.in.service # ""
  /\ event.old.methodsAvailable = << >>
  /\ event.in.method # ""
  /\ "methods" \in event.ok
  /\ methodsAvailable # << >>
  /\ settings.method = event.in.method

C17_FailuresDoNotAbort ==
  event.handled =>
     /\ returned = ReturnNil
     /\ settings.service = event.in.service
     /\ settings.enableErrorPort = event.in.enableErrorPort
     /\ settings.method =
          IF event.in.service # event.old.settings.service
               /\ event.old.settings.service # ""
            THEN "" ELSE event.in.method
     /\ "services" \in event.tried \ event.ok =>
          servicesAvailable = << >> /\ servicesLabels = << >>
     /\ "methods" \in event.tried \ event.ok =>
          methodsAvailable = << >> /\ methodsLabels = << >>
     /\ "schemas" \notin event.ok =>
          /\ requestSchema = event.old.requestSchema
          /\ responseSchema = event.old.responseSchema
          /\ currentMethod = event.old.currentMethod

C17_Witness ==
  /\ event.handled
  /\ returned = ReturnNil
  /\ "schemas" \in event.tried \ event.ok
  /\ "methods" \in event.tried \ event.ok
  /\ event.old.requestSchema # NoDynamicSchema
  /\ requestSchema = event.old.requestSchema
  /\ settings.service = event.in.service
  /\ settings.service # event.old.settings.service

(***************************************************************************)
(* Claims about the built schemas (SpecSchema)                             *)
(***************************************************************************)

\* The schema a node stands for: itself, or what its chain of $refs names
\* (nothing when the chain closes on itself or names no schema).
RECURSIVE Resolved(_, _, _)
Resolved(schemas, g, chain) ==
  IF g.ref = "" THEN g
  ELSE IF g.ref \in chain \/ g.ref \notin DOMAIN schemas THEN GSchema
  ELSE Resolved(schemas, schemas[g.ref], chain \cup {g.ref})

\* The top-level property names of a method's request body.
TopProps(schemas, method) ==
  IF method.request \in DOMAIN schemas
    THEN LET g == Resolved(schemas, schemas[method.request], {})
         IN IF g.type = "object" THEN DOMAIN g.props ELSE {}
    ELSE {}

\* C21: the top-level property names of a built request schema are the
\* method's parameter names together with the top-level property names of
\* its request body (when it is declared and found), with no sub-object
\* around the body's properties, and its required list holds exactly the
\* parameters whose required flag is set.
C21_FlatRequestSchema ==
  requestSchema # NoDynamicSchema =>
     /\ DOMAIN requestSchema.schema.props =
          DOMAIN scMethod.parameters \cup TopProps(scSchemas, scMethod)
     /\ requestSchema.schema.required =
          { n \in DOMAIN scMethod.parameters : scMethod.parameters[n].required }
     /\ requestSchema.schema.type = "object"

C21_Witness ==
  /\ requestSchema # NoDynamicSchema
  /\ scMethod.parameters = Parameters
  /\ scMethod.request = "A"
  /\ scSchemas["A"].type = "object"
  /\ DOMAIN requestSchema.schema.props = {"id", "p", "fields", "q"}
  /\ requestSchema.schema.required = {"id"}

\* C22: when a parameter and a top-level property of the request body have
\* the same name, the property of the built request schema under that name
\* is the parameter's schema, whatever the order of iteration.
C22_ParameterWins ==
  requestSchema # NoDynamicSchema =>
     \A n \in DOMAIN scMethod.parameters \cap TopProps(scSchemas, scMethod) :
        requestSchema.schema.props[n] = parameterToSchema(scMethod.parameters[n])

\* The tags the two conversions have a case for.
ParameterTags == {"string", "integer", "number", "boolean", "array"}
SchemaTags == {"object", "array", "string", "integer", "number", "boolean", "any"}

\* A response whose schema A is an object with property p a $ref to B, B a
\* node of its own, converted before any other $ref.
NodeConverted ==
  /\ responseSchema # NoDynamicSchema
  /\ scMethod.response = "A"
  /\ scSchemas["A"].ref = "" /\ scSchemas["A"].type = "object"
  /\ DOMAIN scSchemas["A"].props = {"p", "q"}
  /\ scSchemas["A"].props["p"] = GRef("B")
  /\ scSchemas["A"].props["q"] = GStr
  /\ scSchemas["B"].ref = ""

\* The parameters without a recognised type become string schemas.
ParameterDefault ==
  requestSchema # NoDynamicSchema =>
     \A n \in DOMAIN scMethod.parameters \ TopProps(scSchemas, scMethod) :
        scMethod.parameters[n].type \notin ParameterTags =>
           requestSchema.schema.props[n].type = "string"

\* C23 as stated: a parameter without a recognised type becomes a string
\* schema and a schema node without a recognised type becomes a schema
\* with no type.
C23_OpenDefault ==
  /\ ParameterDefault
  /\ (NodeConverted /\ scSchemas["B"].type \notin SchemaTags) =>
        responseSchema.schema.props["p"].type = ""

\* C23: a parameter without a recognised type becomes a string schema; a
\* schema node with no type, or of type any, becomes a schema with no type,
\* and a node with another unrecognised type becomes a string schema.
C23_TypeDefaults ==
  /\ ParameterDefault
  /\ NodeConverted =>
        responseSchema.schema.props["p"].type =
          IF scSchemas["B"].type \in SchemaTags \ {"any"} THEN scSchemas["B"].type
          ELSE IF scSchemas["B"].type \in {"", "any"} THEN ""
          ELSE "string"

C23_Witness ==
  /\ NodeConverted
  /\ scSchemas["B"] = GOdd
  /\ responseSchema.schema.props["p"].type = "string"
  /\ requestSchema # NoDynamicSchema
  /\ scMethod.parameters = OddParameters
  /\ requestSchema.schema.props["t"].type = "string"
  /\ requestSchema.schema.props["u"].type = "string"

(***************************************************************************)
(* Claims about the outcome of a request (SpecRequest, SpecClient)         *)
(***************************************************************************)

\* The error a handleRequest call reported: the one on the error port, else
\* the one returned.
Reported ==
  IF emitted # << >> /\ emitted[1].port = "error" THEN emitted[1].msg.error
  ELSE returned.err

\* C24: a call answered with a 2xx status whose body was read is a
\* successful execution: exactly one message goes to the response port with
\* that status, no error is returned, and the body is the decoded JSON
\* object itself or, when the text is no JSON object (no JSON, another JSON
\* value, empty), that value under the one key "data".
C24_SuccessWithAnyBody ==
  (exec.handled /\ exec.reply.kind = "response"
     /\ exec.reply.status >= 200 /\ exec.reply.status <= 299) =>
     /\ returned = ReturnHandler
     /\ Len(emitted) = 1
     /\ emitted[1].port = "response"
     /\ emitted[1].msg.statusCode = exec.reply.status
     /\ emitted[1].msg.error = << >>
     /\ IF exec.reply.raw = "{\"error\":\"not found\"}"
          THEN emitted[1].msg.body = [k \in {"error"} |-> "not found"]
          ELSE /\ DOMAIN emitted[1].msg.body = {"data"}
               /\ exec.reply.raw # "" => emitted[1].msg.wrapped.value = exec.reply.raw
               /\ exec.reply.raw = "" => emitted[1].msg.wrapped.type = "nil"

C24_Witness ==
  /\ exec.handled
  /\ exec.reply = [kind |-> "response", status |-> 204, raw |-> "<html>"]
  /\ emitted # << >>
  /\ emitted[1].port = "response"
  /\ DOMAIN emitted[1].msg.body = {"data"}
  /\ emitted[1].msg.wrapped.value = "<html>"

\* The full names of the document a handled request resolved: the cached one.
ResolvedNames ==
  { x.fullName :
      x \in GetAllMethods(Specification(settings.service, apiCache[settings.service])) }

\* C25: a request whose selected method is not in the resolved document
\* (one with no method at all included) reports "method ... not found" and
\* makes no API call; a request with no service or no method selected
\* reports an error and makes no network call at all.
C25_NotFoundWithoutCall ==
  exec.handled =>
     /\ (settings.service # "" /\ settings.method # ""
           /\ apiCache[settings.service] # 0 /\ settings.method \notin ResolvedNames) =>
          /\ Reported = << "method ", settings.method, " not found" >>
          /\ exec.sent = NoRequest
          /\ exec.reply = NoReply
          /\ "call" \notin exec.net
     /\ (settings.service = "" \/ settings.method = "") =>
          /\ Reported = NotSelected
          /\ exec.sent = NoRequest
          /\ exec.net = {}

C25_Witness ==
  /\ exec.handled
  /\ settings.service = "sheets:v3"
  /\ settings.method = "worksheets.patch"
  /\ apiCache["sheets:v3"] = 2
  /\ ResolvedNames = {}
  /\ Reported = << "method ", "worksheets.patch", " not found" >>
  /\ "spec" \in exec.net
  /\ "call" \notin exec.net

\* The selection state: the selection, the option lists and the schemas.
Selection ==
  << settings, servicesAvailable, servicesLabels, methodsAvailable, methodsLabels,
     requestSchema, responseSchema >>

\* C26: a step that handles a request (whatever its outcome) or calls Ports
\* leaves the selection state as it was; the selection state changes only
\* in a step that handles a settings event.
C26_OnlySettingsMutate ==
  [][ /\ (returned = NoReturn /\ (exec'.handled \/ returned' = ReturnPorts))
          => UNCHANGED Selection
      /\ Selection' # Selection => (returned = NoReturn /\ event'.handled)
    ]_vars

C26_Witness ==
  /\ exec.handled
  /\ emitted # << >>
  /\ emitted[1].port = "response"
  /\ settings.method = "spreadsheets.values.get"
  /\ methodsAvailable # << >>
  /\ requestSchema # NoDynamicSchema

(***************************************************************************)
(* Claims about the listing functions (SpecListing)                        *)
(***************************************************************************)

\* How many times x occurs in a slice.
Occurrences(seq, x) == Cardinality({ i \in 1..Len(seq) : seq[i] = x })

Ascending(seq) == \A i, j \in 1..Len(seq) : i < j => seq[i].title <= seq[j].title

\* C27: GetServices returns every item of the directory as many times as
\* the directory holds it, in ascending order of title; GetPreferredServices
\* returns exactly the items with preferred set, in ascending order of
\* title; of sheets:v4 preferred and sheets:v3 not, it returns sheets:v4.
C27_ServicesSorted ==
  /\ listing.op = "GetServices" =>
       /\ \A x \in Items : Occurrences(listing.services, x) = Occurrences(dirItems, x)
       /\ Ascending(listing.services)
  /\ listing.op = "GetPreferredServices" =>
       /\ \A x \in Items :
            Occurrences(listing.services, x) =
              IF x.preferred THEN Occurrences(dirItems, x) ELSE 0
       /\ Ascending(listing.services)
       /\ ({ dirItems[i].id : i \in 1..Len(dirItems) } = {"sheets:v4", "sheets:v3"}
             /\ \A i \in 1..Len(dirItems) :
                  dirItems[i].preferred = (dirItems[i].id = "sheets:v4")
             /\ Len(dirItems) = 2) =>
            [i \in 1..Len(listing.services) |-> listing.services[i].id] = << "sheets:v4" >>

C27_Witness ==
  /\ listing.op = "GetPreferredServices"
  /\ dirItems = << [id |-> "sheets:v3", title |-> 1, preferred |-> FALSE],
                   [id |-> "sheets:v4", title |-> 2, preferred |-> TRUE] >>
  /\ Len(listing.services) = 1
  /\ listing.services[1].id = "sheets:v4"

\* The places of the methods in a resource tree: the resource names down to
\* the method, then the method's name.
RECURSIVE MethodPaths(_)
MethodPaths(resource) ==
  { << n >> : n \in DOMAIN resource.methods }
    \cup UNION { { << r >> \o q : q \in MethodPaths(resource.resources[r]) } :
                   r \in DOMAIN resource.resources }

RECURSIVE Joined(_)
Joined(path) ==
  IF Len(path) = 1 THEN path[1] ELSE path[1] \o "." \o Joined(Tail(path))

RECURSIVE MethodAt(_, _)
MethodAt(resource, path) ==
  IF Len(path) = 1 THEN resource.methods[path[1]]
  ELSE MethodAt(resource.resources[path[1]], Tail(path))

Document == Specification(dirDoc.id, dirDoc.rev)

\* C28: GetAllMethods returns one entry for each method of the document,
\* named by the resource names down to it and its own name joined by dots
\* (its own name alone at the top), no two entries with the same full name;
\* GetMethods returns these entries in ascending order of full name.
C28_FlattenedOnce ==
  /\ listing.op = "GetAllMethods" =>
       /\ Cardinality(listing.entries) = Cardinality(MethodPaths(Document))
       /\ \A q \in MethodPaths(Document) :
            \E x \in listing.entries :
               /\ x.fullName = Joined(q)
               /\ x.method = MethodAt(Document, q)
               /\ x.resource = IF Len(q) = 1 THEN "" ELSE Joined(SubSeq(q, 1, Len(q) - 1))
       /\ \A x, y \in listing.entries : x.fullName = y.fullName => x = y
  /\ listing.op = "GetMethods" =>
       /\ { listing.methods[i] : i \in 1..Len(listing.methods) } = GetAllMethods(Document)
       /\ Len(listing.methods) = Cardinality(MethodPaths(Document))
       /\ \A i, j \in 1..Len(listing.methods) :
            i < j => NameRank(listing.methods[i].fullName) < NameRank(listing.methods[j].fullName)

C28_Witness ==
  /\ listing.op = "GetMethods"
  /\ dirDoc = [id |-> "sheets:v4", rev |-> 2]
  /\ [i \in 1..Len(listing.methods) |-> listing.methods[i].fullName] =
       << "about", "operations.cancel", "operations.get", "spreadsheets.create",
          "spreadsheets.values.get", "spreadsheets.values.update" >>

(***************************************************************************)
(* Claims about the fixed-operation components (SpecOperation)             *)
(***************************************************************************)

\* C29: a failed operation of a request component, with EnableErrorPort
\* set, gives exactly one Error to the error port, carrying the request's
\* Context, and the handler's result is returned, not the error; with it
\* unset the error is returned and nothing is emitted; a successful
\* operation gives exactly one message to the response port.
C29_ErrorPortDiscipline ==
  opCall.handled =>
     IF opCall.failure # "none"
       THEN IF opSettings[opCall.component]
              THEN /\ Len(opCall.emitted) = 1
                   /\ opCall.emitted[1].port = "error"
                   /\ opCall.emitted[1].context = opCall.context
                   /\ opCall.returned = ReturnHandler
              ELSE /\ opCall.emitted = << >>
                   /\ opCall.returned = ReturnError(<< opCall.failure >>)
       ELSE /\ Len(opCall.emitted) = 1
            /\ opCall.emitted[1].port = "response"
            /\ opCall.emitted[1].context = opCall.context
            /\ opCall.returned = ReturnHandler

(***************************************************************************)
(* Claims about the listen-collection component (SpecListen)               *)
(***************************************************************************)

StopMessage == [LNoMessage EXCEPT !.port = "stop"]

\* C30: with EnableStopPort set and a listener running, a message on the
\* stop port is accepted (Handle returns nil) and cancels the listener's
\* context.
C30_StopPortStops ==
  [][ \A g \in Callers :
        (LHandle(g, StopMessage) /\ lsSettings.enableStopPort /\ cancelFunc # NoOne) =>
           /\ lresult'.kind = "nil"
           /\ cancelled'[cancelFunc]
    ]_vars

(***************************************************************************)
(* Claims about the assembled path (SpecRequest)                           *)
(***************************************************************************)

\* The parameters of the method on record that are located in the path.
PathLocated ==
  { n \in DOMAIN exec.method.parameters : exec.method.parameters[n].location = "path" }

Braces == {"{", "}"}

\* The text holds a brace.
HasBrace(t) == \E i \in 1..Len(t) : t[i] \in Braces

\* C31: when the parameter values give every path-located parameter of the
\* method (and no value holds a brace of its own), the path of the request
\* sent holds no brace: no placeholder of the template is left unreplaced,
\* whether the template is the method's path or its flatPath.
C31_NoPlaceholderLeft ==
  (/\ exec.sent.made
   /\ PathLocated \subseteq DOMAIN exec.data
   /\ \A k \in DOMAIN exec.data : ~HasBrace(exec.data[k])) =>
    ~HasBrace(exec.sent.path)

\* The template executeRequest substitutes in, for the method on record.
TemplateOnRecord ==
  IF exec.method.flatPath = << >> THEN exec.method.path ELSE exec.method.flatPath

\* C32: the path of a request does not depend on the order the path
\* parameters are processed in: for the call on record every order gives
\* the path that was sent, also when a raw {+name} value holds text of the
\* form {other}.
C32_OrderIndependent ==
  exec.sent.made =>
    Substitute(TemplateOnRecord, exec.data, PathParams(exec.data, exec.method))
      = { exec.sent.path }

(***************************************************************************)
(* Claims about the stored selection and schemas (SpecSettings)            *)
(***************************************************************************)

\* C33: after any sequence of settings events the stored method selection
\* is empty or a member of the method option list, and it is not empty
\* only when the stored service selection is not empty.
C33_SelectionInOptions ==
  /\ settings.method = "" \/ settings.method \in Elems(methodsAvailable)
  /\ settings.method # "" => settings.service # ""

\* C34: a settings event that builds the schemas builds them for the method
\* that is the stored method selection after the event, so never for a
\* method while the stored method selection is empty.
C34_SchemasForSelection ==
  (event.handled /\ "schemas" \in event.ok) =>
     /\ event.built = settings.method
     /\ currentMethod = settings.method
     /\ settings.method # ""

(***************************************************************************)
(* Claims about ClearCache (SpecCache)                                     *)
(***************************************************************************)

\* C37: once ClearCache has returned, a GetAPI call that starts later finds
\* in the specification cache no document fetched before the clear (a hit
\* returns the entry), also when a GetAPI was in flight, its document
\* fetched and not yet stored, while ClearCache ran.
C37_ClearInvalidates ==
  \A p \in Procs :
     (pc[p] = "api_read" /\ apiCache[arg[p]] # 0) => ~beforeClear.entry[arg[p]]

\* The goroutines whose start call holds g.runLock, and those of them
\* between setCancelFunc(listenCancel) and the deferred setCancelFunc(nil).
Started == { g \in Callers : lpc[g] \in {"s_set", "s_app", "s_loop", "s_defer", "s_unlock"} }
Listening == { g \in Callers : lpc[g] \in {"s_app", "s_loop", "s_defer"} }

\* C38: at most one start call is past g.runLock at any time (a second one
\* waits at the lock until the first has returned); the component reports
\* "Listening" (cancelFunc is not nil) exactly while a start call is between
\* setting and clearing cancelFunc, and cancelFunc is then that call's own;
\* a stop with no listener changes nothing and returns nil.
C38_OneListener ==
  /\ [](/\ Cardinality(Started) <= 1
        /\ Started = (IF runLock = NoOne THEN {} ELSE {runLock})
        /\ (Status = "Listening") <=> (Listening # {})
        /\ cancelFunc # NoOne => Listening = {cancelFunc})
  /\ [][ \A g \in Callers :
           (LStop(g) /\ cancelFunc = NoOne) =>
              /\ lresult'.kind = "nil"
              /\ UNCHANGED << cancelled, cancelFunc, runLock, startSettings, lemitted >>
       ]_vars

\* One start call is in its loop and reported, the other waits at the lock.
C38_Witness ==
  /\ lpc["g1"] = "s_loop"
  /\ lpc["g2"] = "s_lock"
  /\ runLock = "g1"
  /\ Status = "Listening"

\* C39: a Response or Error that the start call of a Start message gives to
\* the handler carries the Context of that Start message, also when another
\* Start message has arrived on the start port since.
C39_OwnContext ==
  [][ \A g \in Callers :
        (/\ lmsg[g].port = "start"
         /\ lemitted' # lemitted
         /\ \/ \E f \in {"app", "firestore"} : LConnect(g, f)
            \/ LNext(g, "change")) =>
           lemitted'.context = lmsg[g].context
    ]_vars


\* C35: whenever handleRequest copies service, method and enableErrorPort,
\* whatever handleSettings calls are in progress in other goroutines, the
\* three values are those the latest completed handleSettings left (those of
\* Instance() before the first): no request acts on a selection half applied
\* or mixed from two settings events.
C35_RequestReadsCompleted ==
  [][ \A p \in Procs :
        HR_Read(p) =>
          /\ Triple(settings) = completed
          /\ hpc'[p] = "hr_exec" => hold'[p] = completed ]_vars

\* A request acts on the selection of a completed settings event while
\* another goroutine's handleSettings has the next selection half applied.
C35_Witness ==
  /\ hpc["g2"] = "hr_exec" /\ hold["g2"] = completed /\ completed.service # ""
  /\ hpc["g1"] \in {"hs_methods", "hs_method"} /\ settingsLock = "g1"
  /\ Triple(settings) # completed

\* The goroutines with a call in progress.
Busy == { p \in Procs : pc[p] # "idle" \/ hpc[p] # "none" }

\* How far a call is from its return: the handler's position first, then
\* the position of its client call.
HRank(h) ==
  CASE h = "hs_services" -> 6 [] h = "hs_select" -> 5 [] h = "hs_methods" -> 4
    [] h = "hs_method" -> 3 [] h = "hs_schemas" -> 2 [] h = "hs_unlock" -> 1
    [] h = "hr_exec" -> 1 [] OTHER -> 0

PcRank(c) ==
  CASE c = "api_read" -> 7 [] c = "dl_read" -> 6 [] c = "dl_wlock" -> 5
    [] c = "dl_wcheck" -> 4 [] c = "dl_resp" -> 3 [] c = "api_resp" -> 2
    [] c = "api_store" -> 1 [] c = "cc_clear1" -> 2 [] c = "cc_clear2" -> 1
    [] OTHER -> 0

Rank(h, c) == 8 * HRank(h) + PcRank(c)

\* The handler step of goroutine p can be taken: its client call, if it
\* waits for one, has returned, and the values the step chooses from exist.
HandlerReady(p) ==
  CASE hpc[p] \in {"hs_select", "hs_method", "hs_unlock"} -> TRUE
    [] hpc[p] = "hs_services" ->
         /\ pc[p] = "idle"
         /\ result[p].st = "ok" => ServicesOf(Catalogs[result[p].val]) # {}
    [] hpc[p] \in {"hs_methods", "hr_exec"} -> pc[p] = "idle"
    [] hpc[p] = "hs_schemas" ->
         /\ pc[p] = "idle"
         /\ result[p].st = "ok" =>
              LET schemas == Specification(arg[p], result[p].val).schemas
              IN \A x \in GetAllMethods(Specification(arg[p], result[p].val)) :
                   x.fullName = hold[p].method =>
                     \E q \in BuildRequestSchema(schemas, x.method, {}) :
                       BuildResponseSchema(schemas, x.method, q.visited) # {}
    [] OTHER -> FALSE

\* C36: with GetServices, GetAPI, GetMethods and ClearCache calls on the
\* client and handleSettings, handleRequest and Ports calls on the component
\* interleaved in any way, (1) while a call is in progress some call in
\* progress can take its next step (network calls return), (2) every step
\* of a call in progress brings that call nearer to its return and sets no
\* other call back, so that every call returns, and (3) with no call in
\* progress neither discoveryListMu nor settingsLock is held.
C36_NoDeadlock ==
  /\ [](/\ Busy # {} =>
             \E p \in Busy : HandlerReady(p) \/ ENABLED ClientStep(p)
        /\ Busy = {} => (dlWriter = NoWriter /\ settingsLock = NoWriter))
  /\ [][ calls' = calls =>
            /\ \A p \in Procs : Rank(hpc'[p], pc'[p]) <= Rank(hpc[p], pc[p])
            /\ \/ \E p \in Procs : Rank(hpc'[p], pc'[p]) < Rank(hpc[p], pc[p])
               \/ UNCHANGED << cacheVars, concVars >> ]_vars

\* handleSettings, holding settingsLock, waits for discoveryListMu while
\* another goroutine's call holds it across its fetch.
C36_Witness ==
  /\ settingsLock = "g1" /\ hpc["g1"] = "hs_services" /\ pc["g1"] = "dl_wlock"
  /\ dlWriter = "g2" /\ pc["g2"] = "dl_resp"

====
